---- MODULE Spec2Model ----
(***************************************************************************)
(* Availability-and-booking engine of findgrinds-backend.                  *)
(*                                                                         *)
(* Time is counted in minutes from 00:00 of day 0 of the model; day 0 is a *)
(* Sunday, so day 1 is a Monday.  The server clock is taken to be UTC, so  *)
(* Date.getHours()/getDay() and toISOString() describe the same calendar   *)
(* day.  A date string "YYYY-MM-DD" is the day index, a slot time "HH:mm"  *)
(* is the minute of the day (600 is "10:00").                              *)
(*                                                                         *)
(* The sessions table is a bag of rows: the primary key is a random UUID   *)
(* that no handler orders by, so rows equal in every modelled column are   *)
(* interchangeable.                                                        *)
(***************************************************************************)
EXTENDS Integers, Sequences, FiniteSets, Bags, TLC

VARIABLES
    sessions,      \* bag of Session rows
    tutors,        \* tutor id -> Tutor row (group sizes, cancellation policy, Stripe onboarding)
    weeklySlots,   \* set of TutorWeeklySlot rows
    overrides,     \* set of TutorDateOverride rows, unique per (tutorId, date, startTime, medium)
    now,           \* the server clock (new Date())
    inflight,      \* handlers and scheduler runs suspended at an await, with what they read
    response       \* the last request handled and what the handler sent back

vars == <<sessions, tutors, weeklySlots, overrides, now, inflight, response>>

----------------------------------------------------------------------------
(* Bounds of the model *)

\* rows the sessions table may hold where group capacity is at stake
MaxSessions == 3
\* rows the sessions table may hold elsewhere
MaxBooked == 2
\* largest maxGroupSize a tutor is given in the model (the route allows up to 20)
MaxGroup == 3

(* Program constants *)

SlotMins == 30
MaxDuration == 480
MinGroupLimit == 2
MaxGroupLimit == 20
CutoffHours == 24

MinutesPerDay == 24 * 60

----------------------------------------------------------------------------
(* Input sets *)

\* t1 and t2 take bookings; t3 has not finished Stripe onboarding
Tutors == {"t1", "t2", "t3"}
\* an id for which Tutor.findByPk returns null
UnknownTutor == "t0"

VALID_MEDIA == {"IN_PERSON", "VIDEO", "GROUP"}

\* an instant of the Monday of the model, by its minute of the day; in the
\* request bodies a sessionType "" is an absent field and "WORKSHOP" a value
\* outside the enum, 10:15 is a start off the grid
Monday(minute) == MinutesPerDay + minute

None == <<>>

----------------------------------------------------------------------------
(* Time grid *)

\* slotDate.toISOString().split('T')[0]
DateStr(t) == t \div MinutesPerDay

\* slotDate.getDay(); day 0 of the model is a Sunday
DayOfWeek(t) == (t \div MinutesPerDay) % 7

\* `${h}:${m}` with h = getHours() and m = getMinutes() < 30 ? '00' : '30'
SlotTime(t) ==
    LET mins == t % MinutesPerDay
        h == mins \div 60
        m == IF mins % 60 < 30 THEN 0 ELSE 30
    IN  h * 60 + m

\* the slotInfos array of POST /checkout/session
slotInfos(scheduledAt, duration) ==
    [i \in 1..(duration \div SlotMins) |->
        LET slotDate == scheduledAt + (i - 1) * SlotMins
        IN  [date |-> slotDate, dateStr |-> DateStr(slotDate),
             slotTime |-> SlotTime(slotDate), dayOfWeek |-> DayOfWeek(slotDate)]]

----------------------------------------------------------------------------
(* Rows of the sessions table *)

BagOf(row) == SetToBag({row})

Rows == BagToSet(sessions)

\* a table with one row replaced (row.update / row.save)
Replace(table, old, new) == (table (-) BagOf(old)) (+) BagOf(new)

NumSessions == BagCardinality(sessions)

\* booking.durationMins || 60
DurationOr60(b) == IF b.durationMins = 0 THEN 60 ELSE b.durationMins

BookingEnd(b) == b.scheduledAt + DurationOr60(b)

\* the rows of a table among the row values a where clause keeps, with their
\* multiplicity
Where(table, kept) == [b \in BagToSet(table) \cap kept |-> table[b]]

RECURSIVE CountRows(_, _)
\* number of rows of a table among the row values S
CountRows(table, S) ==
    IF S = {} THEN 0
    ELSE LET b == CHOOSE x \in S : TRUE
         IN  CopiesIn(b, table) + CountRows(table, S \ {b})

\* Session.findAll({ where: { tutorId, status: { [Op.ne]: 'CANCELLED' } } })
existingBookings(tutorId) ==
    Where(sessions, {b \in Rows : b.tutorId = tutorId /\ b.status # "CANCELLED"})

\* Session.create: price is in cents; refundAmount 0 is an unset column; checkout
\* is the Stripe Checkout Session that exists for the row ("none",
\* "session_booking", "group_reservation", or "completed" once its event was handled).
\* captures and refundedCents are the payment provider's ledger for the booking
\* (charges taken, cents refunded); cutoffs counts the scheduler's cancellations of it
NewSession(tutorId, sessionType, scheduledAt, duration, price) ==
    [tutorId |-> tutorId, sessionType |-> sessionType, scheduledAt |-> scheduledAt,
     durationMins |-> duration, price |-> price,
     status |-> "PENDING", paymentStatus |-> "pending",
     stripePaymentIntentId |-> FALSE, refundStatus |-> "none", refundAmount |-> 0,
     checkout |-> "none", captures |-> 0, refundedCents |-> 0, cutoffs |-> 0]

----------------------------------------------------------------------------
(* Availability store lookups of POST /checkout/session *)

\* TutorDateOverride.findOne({ where: { tutorId, date, startTime, medium } })
FindOverride(tutorId, slot, medium) ==
    {o \in overrides : /\ o.tutorId = tutorId
                       /\ o.date = slot.dateStr
                       /\ o.startTime = slot.slotTime
                       /\ o.medium = medium}

\* TutorWeeklySlot.findOne({ where: { tutorId, dayOfWeek, startTime, medium } })
FindWeeklySlot(tutorId, slot, medium) ==
    {w \in weeklySlots : /\ w.tutorId = tutorId
                         /\ w.dayOfWeek = slot.dayOfWeek
                         /\ w.startTime = slot.slotTime
                         /\ w.medium = medium}

\* the weekly template alone, as if the table of overrides were never read
weeklyOnly(tutorId, slot, medium) == FindWeeklySlot(tutorId, slot, medium) # {}

\* templateAvailable of the per-slot loop
templateAvailable(tutorId, slot, medium) ==
    LET override == FindOverride(tutorId, slot, medium)
    IN  IF override # {}
        THEN (CHOOSE o \in override : TRUE).isAvailable
        ELSE FindWeeklySlot(tutorId, slot, medium) # {}

RECURSIVE CheckSlotsFrom(_, _, _, _)
\* for (const slot of slotInfos): the index of the slot at which the loop returns
\* the 400, 0 when it runs to its end
CheckSlotsFrom(i, tutorId, slots, medium) ==
    IF i > Len(slots) THEN 0
    ELSE IF ~templateAvailable(tutorId, slots[i], medium) THEN i
    ELSE CheckSlotsFrom(i + 1, tutorId, slots, medium)

----------------------------------------------------------------------------
(* Conflict and capacity checks of POST /checkout/session *)

\* bookingStart < sessionEnd && bookingEnd > scheduledDate
Overlaps(b, rangeStart, rangeEnd) ==
    b.scheduledAt < rangeEnd /\ BookingEnd(b) > rangeStart

\* the loop over existingBookings: "conflict" (409, any booking blocks a 1:1
\* request), "oneToOne" (409, a 1:1 booking blocks a GROUP request) or "ok"
ConflictCheck(bookings, medium, scheduledDate, sessionEnd) ==
    LET hits == {b \in BagToSet(bookings) : Overlaps(b, scheduledDate, sessionEnd)}
    IN  IF medium = "GROUP"
        THEN IF \E b \in hits : b.sessionType # "GROUP" THEN "oneToOne" ELSE "ok"
        ELSE IF hits # {} THEN "conflict" ELSE "ok"

\* groupCount of one slot, counted over the bookings read by findAll
groupCount(bookings, slot) ==
    LET slotStart == slot.date
        slotEnd == slotStart + SlotMins
    IN  CountRows(bookings, {b \in BagToSet(bookings) :
                    Overlaps(b, slotStart, slotEnd) /\ b.sessionType = "GROUP"})

RECURSIVE CapacityFrom(_, _, _, _)
\* the per-slot capacity loop: index of the first full slot, 0 when none is full
CapacityFrom(i, bookings, slots, maxGroupSize) ==
    IF i > Len(slots) THEN 0
    ELSE IF groupCount(bookings, slots[i]) >= maxGroupSize THEN i
    ELSE CapacityFrom(i + 1, bookings, slots, maxGroupSize)

----------------------------------------------------------------------------
(* POST /api/stripe/checkout/session *)

\* a reply that creates nothing
Reject(status, error, unit) ==
    [status |-> status, error |-> error, unit |-> unit, rows |-> {}, mode |-> "none"]

\* const duration = rawDuration || 30
EffectiveDuration(req) == IF req.durationMins = 0 THEN 30 ELSE req.durationMins

\* const medium = sessionType || 'VIDEO'
EffectiveMedium(req) == IF req.sessionType = "" THEN "VIDEO" ELSE req.sessionType

UnitOf(slot) == <<slot.dateStr, slot.slotTime>>

\* the immediate-charge checkout for every medium
alwaysPayment(medium, tutor) == "payment"

\* medium === 'GROUP' && tutor.minGroupSize > 1 ? reservation : payment
CheckoutMode(medium, tutor) ==
    IF medium = "GROUP" /\ tutor.minGroupSize > 1 THEN "reservation" ELSE "payment"

\* everything before Session.findAll: the duration, caller, tutor and
\* template/override checks; "pass" when none of them returns
ValidateRequest(req) ==
    LET duration == EffectiveDuration(req)
        medium == EffectiveMedium(req)
    IN  IF duration < SlotMins \/ duration % SlotMins # 0
        THEN Reject(400, "BadDuration", None)
        ELSE IF duration > MaxDuration
        THEN Reject(400, "TooLong", None)
        ELSE IF req.caller = "PARENT_UNLINKED"
        THEN Reject(403, "NotLinked", None)
        ELSE IF req.tutorId \notin Tutors
        THEN Reject(404, "TutorNotFound", None)
        ELSE IF ~tutors[req.tutorId].stripeConnectOnboarded
        THEN Reject(400, "NotOnboarded", None)
        ELSE IF medium \notin VALID_MEDIA
        \* the query on the enum column throws: the handler's catch answers 500
        THEN Reject(500, "Failed", None)
        ELSE LET slots == slotInfos(req.scheduledAt, duration)
                 bad == CheckSlotsFrom(1, req.tutorId, slots, medium)
             IN  IF bad # 0
                 THEN Reject(400, "SlotUnavailable", UnitOf(slots[bad]))
                 ELSE Reject(0, "pass", None)

\* from the conflict loop to the reply, over the bookings findAll returned
CommitRequest(req, bookings, handoffOk) ==
    LET duration == EffectiveDuration(req)
        medium == EffectiveMedium(req)
        tutor == tutors[req.tutorId]
        slots == slotInfos(req.scheduledAt, duration)
        sessionEnd == req.scheduledAt + duration
        conflict == ConflictCheck(bookings, medium, req.scheduledAt, sessionEnd)
        full == IF medium = "GROUP"
                THEN CapacityFrom(1, bookings, slots, tutor.maxGroupSize) ELSE 0
        mode == CheckoutMode(medium, tutor)
        hourlyRate == IF medium = "GROUP" /\ tutor.groupHourlyRate # 0
                      THEN tutor.groupHourlyRate ELSE tutor.baseHourlyRate
        price == (hourlyRate * 100 * duration) \div 60
        row == NewSession(req.tutorId, medium, req.scheduledAt, duration, price)
    IN  IF conflict = "oneToOne" THEN Reject(409, "OneToOneBooked", None)
        ELSE IF conflict = "conflict" THEN Reject(409, "Conflict", None)
        ELSE IF full # 0 THEN Reject(409, "GroupFull", UnitOf(slots[full]))
        ELSE IF handoffOk
        THEN [status |-> 200, error |-> "none", unit |-> None,
              rows |-> {[row EXCEPT !.checkout =
                           IF mode = "reservation" THEN "group_reservation"
                           ELSE "session_booking"]},
              mode |-> mode]
        \* stripeService threw after Session.create: the catch answers 500
        ELSE [status |-> 500, error |-> "Failed", unit |-> None, rows |-> {row},
              mode |-> "none"]

\* the handler run without interruption
checkoutSession(req, handoffOk) ==
    LET early == ValidateRequest(req)
    IN  IF early.error # "pass" THEN early
        ELSE CommitRequest(req, existingBookings(req.tutorId), handoffOk)

\* res.status(..).json(..): the route, the status, the error, the unit the error
\* names and the checkout mode
Reply(op, req, out) ==
    [op |-> op, req |-> req, status |-> out.status, error |-> out.error,
     unit |-> out.unit, mode |-> out.mode]

Plain(op, status, error) ==
    [op |-> op, req |-> None, status |-> status, error |-> error, unit |-> None,
     mode |-> "none"]

\* the request bodies of the model; durationMins 0 stands for an absent field
CheckoutRequests ==
    [tutorId : {"t1"}, sessionType : {"VIDEO", "GROUP"},
     scheduledAt : {Monday(600), Monday(615), Monday(630)}, durationMins : {30},
     caller : {"STUDENT"}]
    \cup [tutorId : {"t1"}, sessionType : {"VIDEO", "GROUP"},
          scheduledAt : {Monday(600)}, durationMins : {60}, caller : {"STUDENT"}]
    \cup [tutorId : {"t2", "t3", UnknownTutor}, sessionType : {"VIDEO"},
          scheduledAt : {Monday(600)}, durationMins : {30}, caller : {"STUDENT"}]
    \cup [tutorId : {"t1"}, sessionType : {"", "IN_PERSON", "WORKSHOP"},
          scheduledAt : {Monday(600)}, durationMins : {30}, caller : {"STUDENT"}]
    \cup [tutorId : {"t1"}, sessionType : {"VIDEO"},
          scheduledAt : {Monday(600)}, durationMins : {0, 45, 510},
          caller : {"STUDENT"}]
    \cup [tutorId : {"t1"}, sessionType : {"VIDEO"},
          scheduledAt : {Monday(600)}, durationMins : {30},
          caller : {"PARENT", "PARENT_UNLINKED"}]

TryBook(req, handoffOk) ==
    LET out == checkoutSession(req, handoffOk)
    IN  /\ sessions' = sessions (+) SetToBag(out.rows)
        /\ response' = Reply("checkout", req, out)
        /\ UNCHANGED <<tutors, weeklySlots, overrides, now, inflight>>

----------------------------------------------------------------------------
(* POST /api/sessions *)

\* durationMins = 60 when the body has none (0 in LegacyRequests stands for absent)
createSession(req) ==
    LET durationMins == IF req.durationMins = 0 THEN 60 ELSE req.durationMins
        sessionType == EffectiveMedium(req)
    IN  IF req.tutorId \notin Tutors THEN Reject(404, "TutorNotFound", None)
        \* the insert into the enum column throws: the catch answers 500
        ELSE IF sessionType \notin VALID_MEDIA THEN Reject(500, "Failed", None)
        ELSE [status |-> 201, error |-> "none", unit |-> None, mode |-> "none",
              rows |-> {NewSession(req.tutorId, sessionType, req.scheduledAt, durationMins,
                          (tutors[req.tutorId].baseHourlyRate * 100 * durationMins) \div 60)}]

LegacyRequests ==
    [tutorId : {"t1"}, sessionType : {"VIDEO", "GROUP"},
     scheduledAt : {Monday(600), Monday(615)}, durationMins : {30, 45}]
    \cup [tutorId : {"t2", UnknownTutor}, sessionType : {"", "WORKSHOP"},
          scheduledAt : {Monday(600)}, durationMins : {0}]

CreateSession(req) ==
    LET out == createSession(req)
    IN  /\ sessions' = sessions (+) SetToBag(out.rows)
        /\ response' = Reply("sessions", req, out)
        /\ UNCHANGED <<tutors, weeklySlots, overrides, now, inflight>>

----------------------------------------------------------------------------
(* Payment confirmations *)

\* stripeService.handleCheckoutComplete, metadata.type === 'session_booking'
handleCheckoutComplete(b) ==
    [b EXCEPT !.status = "CONFIRMED", !.paymentStatus = "paid",
              !.stripePaymentIntentId = TRUE, !.checkout = "completed",
              !.captures = @ + 1]

\* the webhook for a checkout the customer completed
HandleCheckoutComplete(b) ==
    /\ b \in Rows
    /\ b.checkout = "session_booking"
    /\ sessions' = Replace(sessions, b, handleCheckoutComplete(b))
    /\ response' = Plain("webhook", 200, "none")
    /\ UNCHANGED <<tutors, weeklySlots, overrides, now, inflight>>

\* the reservation checkout (setup mode) completed: the booking is RESERVED
handleReservationComplete(b) ==
    IF b.status = "PENDING"
    THEN [b EXCEPT !.status = "RESERVED", !.checkout = "completed"]
    ELSE [b EXCEPT !.checkout = "completed"]

HandleReservationComplete(b) ==
    /\ b \in Rows
    /\ b.checkout = "group_reservation"
    /\ sessions' = Replace(sessions, b, handleReservationComplete(b))
    /\ response' = Plain("webhook", 200, "none")
    /\ UNCHANGED <<tutors, weeklySlots, overrides, now, inflight>>

\* POST /api/payments/confirm: session.status = 'CONFIRMED'; session.save()
confirmPayment(b) == [b EXCEPT !.status = "CONFIRMED"]

ConfirmPayment(b) ==
    /\ b \in Rows
    /\ sessions' = Replace(sessions, b, confirmPayment(b))
    /\ response' = Plain("confirm", 200, "none")
    /\ UNCHANGED <<tutors, weeklySlots, overrides, now, inflight>>

----------------------------------------------------------------------------
(* PUT /api/sessions/:id/cancel *)

\* the notice period taken strictly: the refund is partial at exactly the notice
refundPercentStrict(b, actor) ==
    LET tutor == tutors[b.tutorId]
    IN  IF actor = "tutor" THEN 100
        ELSE IF b.scheduledAt - now > tutor.cancellationNoticeHours * 60 THEN 100
        ELSE tutor.lateCancellationRefundPercent

\* refundPercent of a paid session
refundPercentOf(b, actor) ==
    LET tutor == tutors[b.tutorId]
    IN  IF actor = "tutor" THEN 100
        \* hoursUntilSession >= tutor.cancellationNoticeHours
        ELSE IF b.scheduledAt - now >= tutor.cancellationNoticeHours * 60 THEN 100
        ELSE tutor.lateCancellationRefundPercent

\* what is left of the booking's payment at the provider
Refundable(b) == b.price - b.refundedCents

\* a provider that never refuses
refundAlways(b, amount, refundOk) == TRUE

\* stripeService.refundSession: stripe.refunds.create succeeds when the provider is
\* reachable (refundOk) and the amount asked for is still refundable; it throws
\* otherwise. amount 0 stands for undefined, a refund of everything that is left
refundSession(b, amount, refundOk) ==
    /\ refundOk
    /\ Refundable(b) > 0
    /\ amount <= Refundable(b)

\* result.amountRefunded in cents
amountRefunded(b, amount) == IF amount = 0 THEN Refundable(b) ELSE amount

\* refundPercent: 0 unless the session is paid
refundPercent(b, actor) ==
    IF b.paymentStatus = "paid" /\ b.stripePaymentIntentId
    THEN refundPercentOf(b, actor) ELSE 0

\* the row session.save() writes; refundOk is the outcome of stripeService.refundSession
cancelSession(b, actor, refundOk) ==
    LET paid == b.paymentStatus = "paid" /\ b.stripePaymentIntentId
        percent == refundPercent(b, actor)
        refundAmountCents == IF percent = 100 THEN 0
                             ELSE (b.price * percent) \div 100
        refunded == paid /\ percent > 0 /\ refundSession(b, refundAmountCents, refundOk)
        failed == paid /\ percent > 0 /\ ~refunded
    IN  [b EXCEPT
            !.status = "CANCELLED",
            !.refundAmount = IF refunded THEN amountRefunded(b, refundAmountCents) ELSE @,
            !.refundedCents = IF refunded THEN @ + amountRefunded(b, refundAmountCents)
                              ELSE @,
            !.paymentStatus = IF refunded THEN "refunded" ELSE @,
            !.refundStatus = IF refunded THEN (IF percent = 100 THEN "full" ELSE "partial")
                             ELSE IF failed THEN "failed" ELSE "none"]

Actors == {"tutor", "student", "parent", "stranger"}

\* res.json({ success: true, data: { ...session.toJSON(), refundPercent }, message })
CancelReply(percent) ==
    [op |-> "cancel", req |-> None, status |-> 200, error |-> "none", unit |-> None,
     mode |-> "none", refundPercent |-> percent]

CancelSession(b, actor, refundOk) ==
    /\ b \in Rows
    /\ IF actor = "stranger"
       THEN /\ response' = Plain("cancel", 403, "NotAuthorized")
            /\ UNCHANGED sessions
       ELSE IF b.status = "COMPLETED"
       THEN /\ response' = Plain("cancel", 400, "Completed")
            /\ UNCHANGED sessions
       ELSE IF b.status = "CANCELLED"
       THEN /\ response' = Plain("cancel", 400, "AlreadyCancelled")
            /\ UNCHANGED sessions
       ELSE /\ sessions' = Replace(sessions, b, cancelSession(b, actor, refundOk))
            /\ response' = CancelReply(refundPercent(b, actor))
    /\ UNCHANGED <<tutors, weeklySlots, overrides, now, inflight>>

----------------------------------------------------------------------------
(* PUT /api/tutors/me *)

\* -1 stands for a field the body does not have
Absent == 0 - 1

\* one of the checks of the body returns 400
updateRejected(tutor, body) ==
    LET limit == IF body.maxGroupSize # Absent THEN body.maxGroupSize ELSE tutor.maxGroupSize
    IN  \/ /\ body.cancellationNoticeHours # Absent
           /\ body.cancellationNoticeHours \notin {6, 12, 24, 48, 72}
        \/ /\ body.lateCancellationRefundPercent # Absent
           /\ body.lateCancellationRefundPercent \notin {0, 25, 50, 75, 100}
        \/ /\ body.maxGroupSize # Absent
           /\ (body.maxGroupSize < MinGroupLimit \/ body.maxGroupSize > MaxGroupLimit)
        \/ /\ body.minGroupSize # Absent
           /\ (body.minGroupSize < MinGroupLimit \/ body.minGroupSize > limit)

\* the Tutor row tutor.save() writes, or the row unchanged when a check returns 400
updateTutor(tutor, body) ==
    IF updateRejected(tutor, body) THEN tutor
    ELSE [tutor EXCEPT
                !.cancellationNoticeHours =
                    IF body.cancellationNoticeHours # Absent
                    THEN body.cancellationNoticeHours ELSE @,
                !.lateCancellationRefundPercent =
                    IF body.lateCancellationRefundPercent # Absent
                    THEN body.lateCancellationRefundPercent ELSE @,
                !.maxGroupSize = IF body.maxGroupSize # Absent THEN body.maxGroupSize ELSE @,
                !.minGroupSize = IF body.minGroupSize # Absent THEN body.minGroupSize ELSE @]

GroupSizeInputs == {Absent, 1, MaxGroupLimit + 1} \cup (MinGroupLimit..MaxGroup)

\* the request bodies of the model that set the group sizes
TutorBodies ==
    [maxGroupSize : GroupSizeInputs, minGroupSize : GroupSizeInputs,
     cancellationNoticeHours : {Absent}, lateCancellationRefundPercent : {Absent}]

UpdateTutor(tutorId, body) ==
    /\ tutors' = [tutors EXCEPT ![tutorId] = updateTutor(tutors[tutorId], body)]
    /\ response' = IF updateRejected(tutors[tutorId], body)
                    THEN Plain("tutor", 400, "Invalid")
                    ELSE Plain("tutor", 200, "none")
    /\ UNCHANGED <<sessions, weeklySlots, overrides, now, inflight>>

----------------------------------------------------------------------------
(* PUT /api/availability/weekly, PUT and DELETE /api/availability/overrides *)

\* /^([01]\d|2[0-3]):(00|30)$/
isValidSlotTime(time) ==
    time >= 0 /\ time < MinutesPerDay /\ time % SlotMins = 0

weeklyInvalid(slots) ==
    \E s \in slots : \/ s.dayOfWeek < 0 \/ s.dayOfWeek > 6
                      \/ ~isValidSlotTime(s.startTime)
                      \/ s.medium \notin VALID_MEDIA

\* TutorWeeklySlot.destroy plus bulkCreate in one transaction
putWeekly(tutorId, slots) ==
    {w \in weeklySlots : w.tutorId # tutorId}
    \cup {[tutorId |-> tutorId, dayOfWeek |-> s.dayOfWeek,
           startTime |-> s.startTime, medium |-> s.medium] : s \in slots}

PutWeekly(tutorId, slots) ==
    /\ weeklySlots' = IF weeklyInvalid(slots) THEN weeklySlots ELSE putWeekly(tutorId, slots)
    /\ response' = IF weeklyInvalid(slots) THEN Plain("weekly", 400, "Invalid")
                    ELSE Plain("weekly", 200, "none")
    /\ UNCHANGED <<sessions, tutors, overrides, now, inflight>>

overridesInvalid(os) ==
    \E o \in os : \/ o.date < 0
                   \/ ~isValidSlotTime(o.startTime)
                   \/ o.medium \notin VALID_MEDIA

SameKey(o, p) ==
    o.tutorId = p.tutorId /\ o.date = p.date /\ o.startTime = p.startTime
        /\ o.medium = p.medium

\* TutorDateOverride.upsert of every override of the body
putOverrides(tutorId, os) ==
    LET new == {[tutorId |-> tutorId, date |-> o.date, startTime |-> o.startTime,
                 medium |-> o.medium, isAvailable |-> o.isAvailable] : o \in os}
    IN  {p \in overrides : ~\E o \in new : SameKey(o, p)} \cup new

PutOverrides(tutorId, os) ==
    /\ overrides' = IF overridesInvalid(os) THEN overrides ELSE putOverrides(tutorId, os)
    /\ response' = IF overridesInvalid(os) THEN Plain("overrides", 400, "Invalid")
                    ELSE Plain("overrides", 200, "none")
    /\ UNCHANGED <<sessions, tutors, weeklySlots, now, inflight>>

\* TutorDateOverride.destroy({ where: { id: { [Op.in]: overrideIds }, tutorId } });
\* a row stands for its own id
deleteOverrides(tutorId, ids) ==
    {p \in overrides : ~(p \in ids /\ p.tutorId = tutorId)}

DeleteOverrides(tutorId, ids) ==
    /\ ids \subseteq overrides
    /\ ids # {}
    /\ overrides' = deleteOverrides(tutorId, ids)
    /\ response' = Plain("overrides", 200, "none")
    /\ UNCHANGED <<sessions, tutors, weeklySlots, now, inflight>>

----------------------------------------------------------------------------
(* The group session scheduler: checkGroupSessionCutoffs, run by cron *)

\* the table with every row b replaced by f[b]
MapRows(table, f) ==
    LET dom == BagToSet(table)
    IN  [r \in {f[b] : b \in dom} |-> CountRows(table, {b \in dom : f[b] = r})]

\* same tutor, scheduledAt and durationMins: the key of slotGroups
SameSlot(a, b) ==
    a.tutorId = b.tutorId /\ a.scheduledAt = b.scheduledAt
        /\ a.durationMins = b.durationMins

\* the selection without its cutoff: every RESERVED group session
reservedAnytime ==
    Where(sessions, {b \in Rows : b.sessionType = "GROUP" /\ b.status = "RESERVED"})

\* reservedSessions: RESERVED group sessions scheduled within the next 24 hours
reservedSessions ==
    Where(sessions, {b \in Rows : /\ b.sessionType = "GROUP"
                                   /\ b.status = "RESERVED"
                                   /\ b.scheduledAt <= now + CutoffHours * 60})

\* sessions.length + confirmedCount of the slot group of a
totalParticipants(a) ==
    LET reserved == BagToSet(reservedSessions)
    IN  CountRows(sessions, {b \in Rows : SameSlot(a, b) /\ b \in reserved})
        + CountRows(sessions, {b \in Rows : /\ SameSlot(a, b)
                                              /\ b.sessionType = "GROUP"
                                              /\ b.status = "CONFIRMED"})

\* stripeService.checkAndChargeGroupIfMinMet for one reserved booking: the saved
\* card is charged and the booking confirmed; a failed charge leaves it RESERVED
chargeReserved(b, captureOk) ==
    IF captureOk
    THEN [b EXCEPT !.status = "CONFIRMED", !.paymentStatus = "paid",
                   !.stripePaymentIntentId = TRUE, !.captures = @ + 1]
    ELSE b

\* the slot groups of the run, each named by its key
slotGroups ==
    {<<b.tutorId, b.scheduledAt, b.durationMins>> : b \in BagToSet(reservedSessions)}

\* the row belongs to a slot group of this run
inGroup(b) ==
    /\ b.sessionType = "GROUP"
    /\ b.tutorId \in Tutors
    /\ \E a \in BagToSet(reservedSessions) : SameSlot(a, b)

\* the comparison made strict: the minimum has to be exceeded
minExceeded(b) == totalParticipants(b) > tutors[b.tutorId].minGroupSize

\* totalParticipants >= tutor.minGroupSize for the slot group of b
minMet(b) == totalParticipants(b) >= tutors[b.tutorId].minGroupSize

\* the rows a run that is not interrupted updates: the RESERVED rows of every slot
\* group, and the CONFIRMED rows of the groups below the minimum
evaluated(b) ==
    /\ inGroup(b)
    /\ \/ b \in BagToSet(reservedSessions)
       \/ b.status = "CONFIRMED" /\ ~minMet(b)

\* the refund of a CONFIRMED row of a group below the minimum is issued
cutoffRefunded(b, refundOk) ==
    b.stripePaymentIntentId /\ refundSession(b, 0, refundOk)

\* the update of a RESERVED row of a group below the minimum left out
keepReserved(b) == b

\* session.update of a RESERVED row of a group below the minimum
cancelReserved(b) ==
    [b EXCEPT !.status = "CANCELLED", !.paymentStatus = "pending", !.cutoffs = @ + 1]

\* a CONFIRMED row of a group below the minimum: the refund is tried first, and
\* confirmed.update writes the row whether or not the refund succeeded
cancelConfirmed(b, refundOk) ==
    [b EXCEPT !.status = "CANCELLED",
              !.paymentStatus = IF b.stripePaymentIntentId THEN "refunded" ELSE "pending",
              !.refundStatus = IF b.stripePaymentIntentId THEN "full" ELSE "none",
              !.refundedCents = IF cutoffRefunded(b, refundOk)
                                THEN @ + Refundable(b) ELSE @,
              !.cutoffs = @ + 1]

\* what the run does to an evaluated row b when its update succeeds; captureOk and
\* refundOk tell whether the charge and the refund of the row succeed
cutoffRow(b, captureOk, refundOk) ==
    IF ~evaluated(b) THEN b
    ELSE IF b.status = "RESERVED"
    THEN IF minMet(b) THEN chargeReserved(b, captureOk) ELSE cancelReserved(b)
    ELSE cancelConfirmed(b, refundOk)

\* the rows of a table after the run has handled each of them
cutoffRows(table, captureOk, refundOk) ==
    MapRows(table, [b \in BagToSet(table) |-> cutoffRow(b, captureOk, refundOk)])

\* the failures a run can meet: the charges of some RESERVED rows of groups at the
\* minimum, the refunds of some paid CONFIRMED rows of groups below it
CaptureFailures ==
    SubBag(Where(sessions, {b \in BagToSet(reservedSessions) : inGroup(b) /\ minMet(b)}))

RefundFailures ==
    SubBag(Where(sessions, {b \in Rows : /\ evaluated(b) /\ b.status = "CONFIRMED"
                                         /\ b.stripePaymentIntentId}))

\* a run in which no update of a row throws
checkGroupSessionCutoffs(captureFails, refundFails) ==
    cutoffRows(sessions (-) (captureFails (+) refundFails), TRUE, TRUE)
        (+) cutoffRows(captureFails, FALSE, TRUE)
        (+) cutoffRows(refundFails, TRUE, FALSE)

\* the cron callback logs what the run throws and answers nobody; the reply records
\* the failures of the run and the slot groups whose loop body ran to its end
CronReply(captureFails, refundFails, done, error) ==
    [Plain("cron", 0, error) EXCEPT
        !.req = [captureFails |-> captureFails, refundFails |-> refundFails,
                 done |-> done]]

CutoffRun(captureFails, refundFails) ==
    /\ captureFails \in CaptureFailures
    /\ refundFails \in RefundFailures
    /\ sessions' = checkGroupSessionCutoffs(captureFails, refundFails)
    /\ response' = CronReply(captureFails, refundFails, slotGroups, "none")
    /\ UNCHANGED <<tutors, weeklySlots, overrides, now, inflight>>

\* the evaluated rows of the slot group of a
groupOf(a) == Where(sessions, {b \in Rows : evaluated(b) /\ SameSlot(a, b)})

\* a run whose update of row at throws: the groups in done were handled before the
\* group of at, and part holds the rows of that group updated before at (the RESERVED
\* rows come first). The refund of at, tried before its update, stays issued. What
\* the run had not reached is left as it was; the exception ends the run
abortedRun(done, part, at, refundOk) ==
    LET touched == Where(sessions, {b \in Rows :
                       /\ evaluated(b)
                       /\ <<b.tutorId, b.scheduledAt, b.durationMins>> \in done}) (+) part
        updated == (sessions (-) touched) (+) cutoffRows(touched, TRUE, TRUE)
    IN  IF at.status = "CONFIRMED" /\ cutoffRefunded(at, refundOk)
        THEN Replace(updated, at, [at EXCEPT !.refundedCents = @ + Refundable(at)])
        ELSE updated

CutoffAbort(done, part, at, refundOk) ==
    /\ at \in Rows /\ evaluated(at) /\ ~minMet(at)
    /\ done \subseteq slotGroups \ {<<at.tutorId, at.scheduledAt, at.durationMins>>}
    /\ part \in SubBag(groupOf(at))
    /\ CopiesIn(at, part) < CopiesIn(at, sessions)
    /\ \A b \in BagToSet(groupOf(at)) :
          IF at.status = "RESERVED"
          THEN b.status = "RESERVED" \/ CopiesIn(b, part) = 0
          ELSE b.status = "RESERVED" => CopiesIn(b, part) = CopiesIn(b, sessions)
    /\ sessions' = abortedRun(done, part, at, refundOk)
    /\ response' = CronReply(EmptyBag, EmptyBag, done, "Failed")
    /\ UNCHANGED <<tutors, weeklySlots, overrides, now, inflight>>

----------------------------------------------------------------------------
(* The scheduler between its awaits: the rows it read, and what it does on them *)

\* sessions.length + confirmedCount for the slot group of b: the RESERVED rows as
\* Session.findAll returned them, the CONFIRMED rows as Session.count finds them now
staleParticipants(b, snapshot) ==
    CountRows(snapshot, {c \in BagToSet(snapshot) : SameSlot(b, c)})
        + CountRows(sessions, {c \in Rows : /\ SameSlot(b, c)
                                            /\ c.sessionType = "GROUP"
                                            /\ c.status = "CONFIRMED"})

staleMet(b, snapshot) ==
    staleParticipants(b, snapshot) >= tutors[b.tutorId].minGroupSize

\* the rows of the snapshot that session.update cancels: those of the groups below
\* the minimum. A row that a cancellation has changed since is CANCELLED already,
\* and the update writes nothing new to it
staleCancelled(snapshot) ==
    [b \in {c \in BagToSet(snapshot) \cap Rows :
               c.tutorId \in Tutors /\ ~staleMet(c, snapshot)} |->
        IF CopiesIn(b, snapshot) < CopiesIn(b, sessions)
        THEN CopiesIn(b, snapshot) ELSE CopiesIn(b, sessions)]

\* confirmedSessions of the groups of the snapshot below the minimum
staleRefunded(snapshot) ==
    Where(sessions, {c \in Rows :
        /\ c.sessionType = "GROUP" /\ c.status = "CONFIRMED" /\ c.tutorId \in Tutors
        /\ \E a \in BagToSet(snapshot) : SameSlot(a, c)
        /\ ~staleMet(c, snapshot)})

\* stripeService.checkAndChargeGroupIfMinMet(sessions[0]) for the groups of the
\* snapshot at the minimum: it reads the group again, and charges its RESERVED rows
\* if the minimum is still met
staleCharged(snapshot) ==
    Where(sessions, {c \in BagToSet(reservedSessions) :
        /\ inGroup(c) /\ minMet(c)
        /\ \E a \in BagToSet(snapshot) : SameSlot(a, c) /\ staleMet(a, snapshot)})

resolveSnapshot(snapshot) ==
    (sessions (-) (staleCancelled(snapshot) (+) staleRefunded(snapshot)
                      (+) staleCharged(snapshot)))
        (+) MapRows(staleCancelled(snapshot),
                    [b \in BagToSet(staleCancelled(snapshot)) |-> cancelReserved(b)])
        (+) MapRows(staleRefunded(snapshot),
                    [b \in BagToSet(staleRefunded(snapshot)) |-> cancelConfirmed(b, TRUE)])
        (+) MapRows(staleCharged(snapshot),
                    [b \in BagToSet(staleCharged(snapshot)) |-> chargeReserved(b, TRUE)])

\* the run up to the result of Session.findAll; it returns at once when nothing is
\* RESERVED within the next 24 hours
CronSnapshot ==
    /\ inflight = <<>>
    /\ IF reservedSessions = EmptyBag
       THEN /\ response' = CronReply(EmptyBag, EmptyBag, {}, "none")
            /\ UNCHANGED inflight
       ELSE /\ inflight' = <<[req |-> "cron", bookings |-> reservedSessions]>>
            /\ UNCHANGED response
    /\ UNCHANGED <<sessions, tutors, weeklySlots, overrides, now>>

\* the rest of the run, on the rows it read
CronResolve ==
    /\ inflight # <<>>
    /\ LET snapshot == inflight[1].bookings
       IN  /\ sessions' = resolveSnapshot(snapshot)
           /\ response' = CronReply(EmptyBag, EmptyBag,
                 {<<b.tutorId, b.scheduledAt, b.durationMins>> : b \in BagToSet(snapshot)},
                 "none")
    /\ inflight' = <<>>
    /\ UNCHANGED <<tutors, weeklySlots, overrides, now>>

----------------------------------------------------------------------------
(* GET /api/availability/:tutorId/slots *)

\* getEndTime: the end of a 30-minute slot
getEndTime(startTime) ==
    LET h == startTime \div 60
        endMinutes == (startTime % 60) + 30
    IN  (IF endMinutes >= 60 THEN h + 1 ELSE h) * 60 + (IF endMinutes >= 60 THEN 0 ELSE 30)

\* generateSlotKeys: Math.ceil(durationMins / 30) keys, minutes floored to 00 or 30
generateSlotKeys(scheduledAt, durationMins) ==
    LET numSlots == (durationMins + SlotMins - 1) \div SlotMins
    IN  [i \in 1..numSlots |->
            <<DateStr(scheduledAt + (i - 1) * SlotMins),
              SlotTime(scheduledAt + (i - 1) * SlotMins)>>]

\* the 30-minute slots from 08:00 to 21:30
WindowTimes == {hour * 60 + minute : hour \in 8..21, minute \in {0, 30}}

\* computeAvailability: the result array as the set of its entries; an undefined
\* groupSpotsLeft or groupSpotsTotal is Absent
computeAvailability(tutorId, startDate, endDate, medium) ==
    LET tutor == tutors[tutorId]
        weeklySet == {<<w.dayOfWeek, w.startTime>> :
                        w \in {x \in weeklySlots : x.tutorId = tutorId /\ x.medium = medium}}
        overrideRows == {o \in overrides : /\ o.tutorId = tutorId /\ o.medium = medium
                                           /\ o.date >= startDate /\ o.date <= endDate}
        found == Where(sessions,
                    {b \in Rows :
                        /\ b.tutorId = tutorId
                        /\ b.scheduledAt >= startDate * MinutesPerDay
                        /\ b.scheduledAt <= endDate * MinutesPerDay + (MinutesPerDay - 1)
                        /\ b.status # "CANCELLED"})
        Keyed(key) == {b \in BagToSet(found) :
                         \E i \in DOMAIN generateSlotKeys(b.scheduledAt, DurationOr60(b)) :
                            generateSlotKeys(b.scheduledAt, DurationOr60(b))[i] = key}
        oneToOneBooked(key) == \E b \in Keyed(key) : b.sessionType # "GROUP"
        groupCountAt(key) ==
            CountRows(found, {b \in Keyed(key) : b.sessionType = "GROUP"})
        isTemplateAvailable(date, startTime) ==
            LET hit == {o \in overrideRows : o.date = date /\ o.startTime = startTime}
            IN  IF hit # {} THEN (CHOOSE o \in hit : TRUE).isAvailable
                ELSE <<date % 7, startTime>> \in weeklySet
        available(key) ==
            IF medium = "GROUP"
            THEN ~oneToOneBooked(key) /\ groupCountAt(key) < tutor.maxGroupSize
            ELSE ~oneToOneBooked(key) /\ groupCountAt(key) = 0
        hourlyRate == IF medium = "GROUP" /\ tutor.groupHourlyRate # 0
                      THEN tutor.groupHourlyRate ELSE tutor.baseHourlyRate
    IN  {[date |-> date, startTime |-> startTime, endTime |-> getEndTime(startTime),
          available |-> available(<<date, startTime>>), medium |-> medium,
          price |-> hourlyRate,
          groupSpotsLeft |-> IF medium = "GROUP" /\ available(<<date, startTime>>)
                             THEN tutor.maxGroupSize - groupCountAt(<<date, startTime>>)
                             ELSE Absent,
          groupSpotsTotal |-> IF medium = "GROUP" /\ available(<<date, startTime>>)
                              THEN tutor.maxGroupSize ELSE Absent] :
            <<date, startTime>> \in
                {k \in (startDate..endDate) \X WindowTimes :
                    /\ isTemplateAvailable(k[1], k[2])
                    /\ k[1] * MinutesPerDay + k[2] > now}}

\* the query strings of the model: Monday alone, Sunday to Monday, Monday to Tuesday
SlotQueries ==
    [tutorId : {"t1"}, medium : {"VIDEO", "GROUP"}, startDate : {1}, endDate : {1}]
    \cup [tutorId : {"t1", UnknownTutor}, medium : {"VIDEO", "WORKSHOP"},
          startDate : {0}, endDate : {1}]
    \cup [tutorId : {"t1"}, medium : {"IN_PERSON"}, startDate : {1}, endDate : {2}]

\* the route: 400 for a medium outside VALID_MEDIA, 404 for a tutor not found
GetSlots(q) ==
    /\ response' =
          IF q.medium \notin VALID_MEDIA
          THEN [Plain("slots", 400, "InvalidMedium") EXCEPT !.req = q]
          ELSE IF q.tutorId \notin Tutors
          THEN [Plain("slots", 404, "TutorNotFound") EXCEPT !.req = q]
          ELSE [op |-> "slots", req |-> q, status |-> 200, error |-> "none",
                unit |-> None, mode |-> "none",
                slots |-> computeAvailability(q.tutorId, q.startDate, q.endDate, q.medium)]
    /\ UNCHANGED <<sessions, tutors, weeklySlots, overrides, now, inflight>>

----------------------------------------------------------------------------
(* The clock *)

\* Sunday 00:00 (more than 24 hours before every start), Sunday 12:00 (inside
\* the 24 hours), Monday 08:00 (two hours before 10:00) and Monday 10:20
Instants == {0, 720, Monday(480), Monday(620)}

\* Sunday 10:15: Monday 10:00 is within the next 24 hours and Monday 10:30 is not
CutoffInstants == {0, 615, 720}

\* Sunday 10:00 is exactly 24 hours before Monday 10:00
CancelInstants == {0, 600, Monday(480)}

Tick(t) ==
    /\ t \in Instants \cup CutoffInstants \cup CancelInstants
    /\ t > now
    /\ now' = t
    /\ UNCHANGED <<sessions, tutors, weeklySlots, overrides, inflight, response>>

----------------------------------------------------------------------------
(* Initial states *)

\* a Tutor row; rates are in euro per hour, groupHourlyRate 0 is null
TutorRow(maxGroupSize, minGroupSize, onboarded) ==
    [maxGroupSize |-> maxGroupSize, minGroupSize |-> minGroupSize,
     cancellationNoticeHours |-> 24, lateCancellationRefundPercent |-> 50,
     stripeConnectOnboarded |-> onboarded,
     baseHourlyRate |-> 40, groupHourlyRate |-> 30]

\* every tutor of every initial state satisfies the validators of the Tutor model
TutorTables ==
    {[t \in Tutors |-> TutorRow(IF t = "t1" THEN mx ELSE MinGroupLimit,
                                IF t = "t1" THEN mn ELSE MinGroupLimit, t # "t3")] :
        mx \in MinGroupLimit..MaxGroup, mn \in {MinGroupLimit}}

WeeklyRow(tutorId, dayOfWeek, startTime, medium) ==
    [tutorId |-> tutorId, dayOfWeek |-> dayOfWeek, startTime |-> startTime,
     medium |-> medium]

NoReply == Plain("none", 0, "none")

\* t1 offers Monday 10:00 and 10:30 for VIDEO and GROUP, t2 Monday 10:00 for VIDEO
OfferedSlots ==
    {WeeklyRow("t1", 1, t, m) : t \in {600, 630}, m \in {"VIDEO", "GROUP"}}
    \cup {WeeklyRow("t2", 1, 600, "VIDEO")}

Init ==
    /\ sessions = EmptyBag
    /\ tutors \in TutorTables
    /\ weeklySlots = OfferedSlots
    /\ overrides = {}
    /\ now = 0
    /\ inflight = <<>>
    /\ response = NoReply

\* the table has room for the row the request may insert
Room(cap, out) == out.rows # {} => NumSessions < cap

----------------------------------------------------------------------------
(* Every route that writes the sessions table, the scheduler and the clock *)

LifecycleRequests ==
    [tutorId : {"t1"}, sessionType : {"VIDEO", "GROUP"}, scheduledAt : {Monday(600)},
     durationMins : {30}, caller : {"STUDENT"}]

Next ==
    \/ \E req \in LifecycleRequests, handoffOk \in BOOLEAN :
          Room(MaxBooked, checkoutSession(req, handoffOk)) /\ TryBook(req, handoffOk)
    \/ \E req \in LegacyRequests :
          Room(MaxBooked, createSession(req)) /\ CreateSession(req)
    \/ \E b \in Rows : HandleCheckoutComplete(b)
    \/ \E b \in Rows : HandleReservationComplete(b)
    \/ \E b \in Rows : ConfirmPayment(b)
    \/ \E b \in Rows, actor \in Actors, refundOk \in BOOLEAN :
          CancelSession(b, actor, refundOk)
    \/ \E captureFails \in CaptureFailures, refundFails \in RefundFailures :
          CutoffRun(captureFails, refundFails)
    \/ \E t \in Instants : Tick(t)

Spec == Init /\ [][Next]_vars

----------------------------------------------------------------------------
(* Group reservations, the scheduler with its failures, and what runs between *)
(* two of its runs                                                           *)

SchedulerRequests ==
    [tutorId : {"t1"}, sessionType : {"GROUP"}, scheduledAt : {Monday(600), Monday(630)},
     durationMins : {30}, caller : {"STUDENT"}]

\* the tutor raises or lowers the minimum of the group
SchedulerBodies ==
    [maxGroupSize : {Absent}, minGroupSize : MinGroupLimit..MaxGroup,
     cancellationNoticeHours : {Absent}, lateCancellationRefundPercent : {Absent}]

NextScheduler ==
    \/ \E req \in SchedulerRequests :
          Room(MaxBooked, checkoutSession(req, TRUE)) /\ TryBook(req, TRUE)
    \/ \E b \in Rows : HandleReservationComplete(b)
    \/ \E b \in Rows : ConfirmPayment(b)
    \/ \E b \in Rows, refundOk \in BOOLEAN : CancelSession(b, "student", refundOk)
    \/ \E body \in SchedulerBodies : UpdateTutor("t1", body)
    \/ \E captureFails \in CaptureFailures, refundFails \in RefundFailures :
          CutoffRun(captureFails, refundFails)
    \/ \E done \in SUBSET slotGroups, at \in Rows, refundOk \in BOOLEAN :
          \E part \in SubBag(groupOf(at)) : CutoffAbort(done, part, at, refundOk)
    \/ \E t \in CutoffInstants : Tick(t)

SpecScheduler == Init /\ [][NextScheduler]_vars

----------------------------------------------------------------------------
(* GROUP bookings, cancellations and the tutor's settings: one request at a time *)

GroupRequests ==
    [tutorId : {"t1"}, sessionType : {"GROUP"}, scheduledAt : {Monday(600), Monday(630)},
     durationMins : {30, 60}, caller : {"STUDENT"}]

NextCapacity ==
    \/ \E req \in GroupRequests, handoffOk \in BOOLEAN :
          Room(MaxSessions, checkoutSession(req, handoffOk)) /\ TryBook(req, handoffOk)
    \/ \E b \in Rows, actor \in {"student", "stranger"} : CancelSession(b, actor, TRUE)
    \/ \E body \in TutorBodies : UpdateTutor("t1", body)

SpecCapacity == Init /\ [][NextCapacity]_vars

----------------------------------------------------------------------------
(* POST /checkout/session with requests in flight: the handler is suspended
   between Session.findAll and Session.create *)

MaxInflight == 2

ConcurrentRequests ==
    [tutorId : {"t1"}, sessionType : {"VIDEO", "GROUP"}, scheduledAt : {Monday(600)},
     durationMins : {30}, caller : {"STUDENT"}]
    \cup {[tutorId |-> "t1", sessionType |-> "VIDEO", scheduledAt |-> Monday(630),
           durationMins |-> 30, caller |-> "STUDENT"],
          [tutorId |-> "t1", sessionType |-> "GROUP", scheduledAt |-> Monday(600),
           durationMins |-> 60, caller |-> "STUDENT"],
          [tutorId |-> "t3", sessionType |-> "VIDEO", scheduledAt |-> Monday(600),
           durationMins |-> 30, caller |-> "STUDENT"]}

\* the handler up to the result of Session.findAll
BeginBook(req) ==
    LET early == ValidateRequest(req)
    IN  /\ IF early.error # "pass"
           THEN /\ response' = Reply("checkout", req, early)
                /\ UNCHANGED inflight
           ELSE /\ inflight' = Append(inflight,
                                   [req |-> req, bookings |-> existingBookings(req.tutorId)])
                /\ UNCHANGED response
        /\ UNCHANGED <<sessions, tutors, weeklySlots, overrides, now>>

\* the rest of the handler, on the bookings it read
CommitBook(i, handoffOk) ==
    /\ i \in 1..Len(inflight)
    /\ LET call == inflight[i]
           out == CommitRequest(call.req, call.bookings, handoffOk)
       IN  /\ sessions' = sessions (+) SetToBag(out.rows)
           /\ response' = Reply("checkout", call.req, out)
    /\ inflight' = [j \in 1..(Len(inflight) - 1) |->
                       IF j < i THEN inflight[j] ELSE inflight[j + 1]]
    /\ UNCHANGED <<tutors, weeklySlots, overrides, now>>

InitOffered ==
    /\ sessions = EmptyBag
    /\ tutors = [t \in Tutors |-> TutorRow(MinGroupLimit, MinGroupLimit, t # "t3")]
    /\ weeklySlots = OfferedSlots
    /\ overrides = {}
    /\ now = 0
    /\ inflight = <<>>
    /\ response = NoReply

NextConcurrent ==
    \/ \E req \in ConcurrentRequests :
          /\ Len(inflight) < MaxInflight
          /\ NumSessions + Len(inflight) < MaxSessions
          /\ BeginBook(req)
    \/ \E i \in 1..MaxInflight, handoffOk \in BOOLEAN : CommitBook(i, handoffOk)

SpecConcurrent == InitOffered /\ [][NextConcurrent]_vars

----------------------------------------------------------------------------
(* Reservations and cancellations arriving while a run of the scheduler is *)
(* suspended at an await                                                   *)

NextRace ==
    \/ \E req \in SchedulerRequests :
          Room(MaxSessions, checkoutSession(req, TRUE)) /\ TryBook(req, TRUE)
    \/ \E b \in Rows : HandleReservationComplete(b)
    \/ \E b \in Rows : CancelSession(b, "student", TRUE)
    \/ CronSnapshot
    \/ CronResolve
    \/ \E t \in CutoffInstants : Tick(t)

SpecRace == InitOffered /\ [][NextRace]_vars

----------------------------------------------------------------------------
(* Paid bookings, the tutor's cancellation policy and cancellations *)

PaidRequests ==
    [tutorId : {"t1"}, sessionType : {"VIDEO"}, scheduledAt : {Monday(600), Monday(630)},
     durationMins : {30}, caller : {"STUDENT"}]

\* the tutor chooses the notice period and the late refund; 5 and 30 are not offered
PolicyBodies ==
    [maxGroupSize : {Absent}, minGroupSize : {Absent},
     cancellationNoticeHours : {Absent, 5, 6, 24},
     lateCancellationRefundPercent : {Absent, 0, 25, 30}]

NextCancel ==
    \/ \E req \in PaidRequests :
          Room(MaxBooked, checkoutSession(req, TRUE)) /\ TryBook(req, TRUE)
    \/ \E b \in Rows : HandleCheckoutComplete(b)
    \/ \E b \in Rows, actor \in Actors, refundOk \in BOOLEAN :
          CancelSession(b, actor, refundOk)
    \/ \E body \in PolicyBodies : UpdateTutor("t1", body)
    \/ \E t \in CancelInstants : Tick(t)

SpecCancel == InitOffered /\ [][NextCancel]_vars

----------------------------------------------------------------------------
(* The resolver beside the routes that change what it reads *)

ResolverRequests ==
    [tutorId : {"t1"}, sessionType : {"VIDEO", "GROUP"},
     scheduledAt : {Monday(600), Monday(615), Monday(630)}, durationMins : {30},
     caller : {"STUDENT"}]

ResolverOverrides ==
    {{[date |-> 1, startTime |-> 630, medium |-> "VIDEO", isAvailable |-> a]} :
        a \in BOOLEAN}

NextResolver ==
    \/ \E req \in ResolverRequests :
          Room(MaxBooked, checkoutSession(req, TRUE)) /\ TryBook(req, TRUE)
    \/ \E b \in Rows : CancelSession(b, "student", TRUE)
    \/ \E os \in ResolverOverrides : PutOverrides("t1", os)
    \/ \E t \in Instants : Tick(t)
    \/ \E q \in SlotQueries : GetSlots(q)

SpecResolver == InitOffered /\ [][NextResolver]_vars

----------------------------------------------------------------------------
(* The validator with the availability store: one request at a time *)

MondaySlots(times, media) ==
    {[dayOfWeek |-> 1, startTime |-> t, medium |-> m] : t \in times, m \in media}

WeeklyBodies ==
    {{}, MondaySlots({600, 630}, VALID_MEDIA), MondaySlots({600}, {"VIDEO", "GROUP"}),
     {[dayOfWeek |-> 7, startTime |-> 600, medium |-> "VIDEO"]}}

OverrideBodies ==
    {{[date |-> 1, startTime |-> 630, medium |-> "VIDEO", isAvailable |-> a]} :
        a \in BOOLEAN}
    \cup {{[date |-> 1, startTime |-> 600, medium |-> "GROUP", isAvailable |-> FALSE]},
          {[date |-> 1, startTime |-> 615, medium |-> "VIDEO", isAvailable |-> TRUE]}}

InitValidator ==
    /\ sessions = EmptyBag
    /\ tutors = [t \in Tutors |-> TutorRow(MinGroupLimit, MinGroupLimit, t # "t3")]
    /\ weeklySlots = {WeeklyRow("t2", 1, 600, "VIDEO")}
    /\ overrides = {}
    /\ now = 0
    /\ inflight = <<>>
    /\ response = NoReply

NextValidator ==
    \/ \E req \in CheckoutRequests, handoffOk \in BOOLEAN :
          Room(MaxBooked, checkoutSession(req, handoffOk)) /\ TryBook(req, handoffOk)
    \/ \E slots \in WeeklyBodies : PutWeekly("t1", slots)
    \/ \E os \in OverrideBodies : PutOverrides("t1", os)
    \/ \E t \in {"t1", "t2"}, ids \in SUBSET overrides : DeleteOverrides(t, ids)

SpecValidator == InitValidator /\ [][NextValidator]_vars

----------------------------------------------------------------------------
(* The unit expansions, applied to starts on and off the grid *)

\* starts on the half hour, off it, and close enough to midnight to cross it
GridStarts ==
    {Monday(m) : m \in {0, 15, 29, 30, 45, 600, 610, 630, 1380, 1410, 1425, 1439}}

\* the durations POST /checkout/session accepts, up to four and a half hours
GridDurations == {n * SlotMins : n \in 1..9}

\* the keys the validator looks up, taken from its slotInfos
slotInfoKeys(scheduledAt, duration) ==
    [i \in DOMAIN slotInfos(scheduledAt, duration) |->
        <<slotInfos(scheduledAt, duration)[i].dateStr,
          slotInfos(scheduledAt, duration)[i].slotTime>>]

\* both expansions applied to one start and duration
Expand(scheduledAt, duration) ==
    /\ response' = [op |-> "units",
                    req |-> [scheduledAt |-> scheduledAt, durationMins |-> duration],
                    status |-> 0, error |-> "none", unit |-> None, mode |-> "none",
                    keys |-> generateSlotKeys(scheduledAt, duration),
                    infoKeys |-> slotInfoKeys(scheduledAt, duration)]
    /\ UNCHANGED <<sessions, tutors, weeklySlots, overrides, now, inflight>>

NextGrid == \E scheduledAt \in GridStarts, duration \in GridDurations :
               Expand(scheduledAt, duration)

SpecGrid == InitOffered /\ [][NextGrid]_vars

----------------------------------------------------------------------------
(* POST /checkout/session suspended after its template/override checks while *)
(* the tutor edits the weekly template and the overrides                    *)

NextInterleaved ==
    \/ \E req \in ConcurrentRequests :
          /\ Len(inflight) < MaxInflight
          /\ NumSessions + Len(inflight) < MaxBooked
          /\ BeginBook(req)
    \/ \E i \in 1..MaxInflight, handoffOk \in BOOLEAN : CommitBook(i, handoffOk)
    \/ \E slots \in WeeklyBodies : PutWeekly("t1", slots)
    \/ \E os \in OverrideBodies : PutOverrides("t1", os)
    \/ \E t \in {"t1", "t2"}, ids \in SUBSET overrides : DeleteOverrides(t, ids)

SpecInterleaved == InitOffered /\ [][NextInterleaved]_vars

----------------------------------------------------------------------------
(* PUT /api/availability/weekly as the transaction it runs, with its readers: *)
(* GET /:tutorId/slots reads the template with one findAll, POST              *)
(* /checkout/session with one findOne per unit                                *)

ReplaceBodies ==
    {{}, MondaySlots({600}, {"VIDEO"}), MondaySlots({630}, {"VIDEO"}),
     {[dayOfWeek |-> 1, startTime |-> 615, medium |-> "VIDEO"]}}

ReaderRequests ==
    [tutorId : {"t1"}, sessionType : {"VIDEO"}, scheduledAt : {Monday(600), Monday(630)},
     durationMins : {30, 60}, caller : {"STUDENT"}]
    \cup {[tutorId |-> "t3", sessionType |-> "VIDEO", scheduledAt |-> Monday(600),
           durationMins |-> 30, caller |-> "STUDENT"]}

\* inflight without its i-th call
Without(i) ==
    [j \in 1..(Len(inflight) - 1) |-> IF j < i THEN inflight[j] ELSE inflight[j + 1]]

\* the handler up to sequelize.transaction: the 400 of an invalid slot, or the
\* transaction opened
BeginReplace(tutorId, slots) ==
    /\ IF weeklyInvalid(slots)
       THEN /\ response' = Plain("weekly", 400, "Invalid")
            /\ UNCHANGED inflight
       ELSE /\ inflight' = Append(inflight, [kind |-> "weekly", tutorId |-> tutorId,
                                            slots |-> slots])
            /\ UNCHANGED response
    /\ UNCHANGED <<sessions, tutors, weeklySlots, overrides, now>>

\* the transaction commits: destroy and bulkCreate become visible together;
\* a checkout handler in flight notes the template now in force (templates is
\* a record of history, the handler never reads it)
CommitReplace(i) ==
    /\ i \in 1..Len(inflight)
    /\ inflight[i].kind = "weekly"
    /\ weeklySlots' = putWeekly(inflight[i].tutorId, inflight[i].slots)
    /\ inflight' = [j \in 1..(Len(inflight) - 1) |->
                       LET call == Without(i)[j]
                       IN  IF call.kind = "checkout"
                           THEN [call EXCEPT !.templates = @ \cup {weeklySlots'}]
                           ELSE call]
    /\ response' = Plain("weekly", 200, "none")
    /\ UNCHANGED <<sessions, tutors, overrides, now>>

\* a query of the transaction throws: it is rolled back and the catch answers 500
FailReplace(i) ==
    /\ i \in 1..Len(inflight)
    /\ inflight[i].kind = "weekly"
    /\ inflight' = Without(i)
    /\ response' = Plain("weekly", 500, "Failed")
    /\ UNCHANGED <<sessions, tutors, weeklySlots, overrides, now>>

\* POST /checkout/session up to the per-unit loop
StartBook(req) ==
    LET early == ValidateRequest(req)
    IN  /\ IF early.error \notin {"pass", "SlotUnavailable"}
           THEN /\ response' = Reply("checkout", req, early)
                /\ UNCHANGED inflight
           ELSE /\ inflight' = Append(inflight, [kind |-> "checkout", req |-> req,
                                                unit |-> 1, templates |-> {weeklySlots}])
                /\ UNCHANGED response
        /\ UNCHANGED <<sessions, tutors, weeklySlots, overrides, now>>

\* one turn of the per-unit loop: the findOne of the override and of the weekly
\* slot of one unit, and the 400 when the unit is not offered
CheckUnit(i) ==
    /\ i \in 1..Len(inflight)
    /\ inflight[i].kind = "checkout"
    /\ LET call == inflight[i]
           slots == slotInfos(call.req.scheduledAt, EffectiveDuration(call.req))
       IN  /\ call.unit <= Len(slots)
           /\ IF templateAvailable(call.req.tutorId, slots[call.unit],
                                   EffectiveMedium(call.req))
              THEN /\ inflight' = [inflight EXCEPT ![i].unit = @ + 1]
                   /\ UNCHANGED response
              ELSE /\ inflight' = Without(i)
                   /\ response' = Reply("checkout", call.req,
                                        Reject(400, "SlotUnavailable",
                                               UnitOf(slots[call.unit])))
    /\ UNCHANGED <<sessions, tutors, weeklySlots, overrides, now>>

\* the rest of the handler once every unit has passed: Session.findAll, the
\* conflict and capacity checks, Session.create and the reply
FinishBook(i, handoffOk) ==
    /\ i \in 1..Len(inflight)
    /\ inflight[i].kind = "checkout"
    /\ LET call == inflight[i]
           slots == slotInfos(call.req.scheduledAt, EffectiveDuration(call.req))
           out == CommitRequest(call.req, existingBookings(call.req.tutorId), handoffOk)
       IN  /\ call.unit > Len(slots)
           /\ sessions' = sessions (+) SetToBag(out.rows)
           /\ response' = [op |-> "checkout", req |-> call.req, status |-> out.status,
                           error |-> out.error, unit |-> out.unit, mode |-> out.mode,
                           templates |-> call.templates]
    /\ inflight' = Without(i)
    /\ UNCHANGED <<tutors, weeklySlots, overrides, now>>

NextWeekly ==
    \/ \E slots \in ReplaceBodies :
          Len(inflight) < MaxInflight /\ BeginReplace("t1", slots)
    \/ \E i \in 1..MaxInflight : CommitReplace(i)
    \/ \E i \in 1..MaxInflight : FailReplace(i)
    \/ \E req \in ReaderRequests :
          /\ Len(inflight) < MaxInflight
          /\ NumSessions < MaxBooked
          /\ StartBook(req)
    \/ \E i \in 1..MaxInflight : CheckUnit(i)
    \/ \E i \in 1..MaxInflight, handoffOk \in BOOLEAN : FinishBook(i, handoffOk)
    \/ \E q \in {p \in SlotQueries : p.startDate = 1 /\ p.endDate = 1} : GetSlots(q)

SpecWeekly == InitOffered /\ [][NextWeekly]_vars

----------------------------------------------------------------------------
(* The scheduler under a timer that keeps firing: a run in which every charge, *)
(* refund and update succeeds is not postponed forever                         *)

SpecSchedulerFair ==
    Init /\ [][NextScheduler]_vars /\ WF_vars(CutoffRun(EmptyBag, EmptyBag))

----------------------------------------------------------------------------
(* PUT /api/sessions/:id/cancel with requests in flight: the handler is       *)
(* suspended between Session.findByPk and stripeService.refundSession        *)

\* the row of the table that the instance snap was loaded from; the starts of
\* the bookings of SpecCancelRace are distinct, the start stands for the id
RowOf(snap) == CHOOSE c \in Rows : c.scheduledAt = snap.scheduledAt

\* the handler up to the refund: the row is loaded and the 403 and 400 are
\* answered on it
BeginCancel(b, actor) ==
    /\ b \in Rows
    /\ IF actor = "stranger" \/ b.status \in {"COMPLETED", "CANCELLED"}
       THEN /\ CancelSession(b, actor, TRUE)
       ELSE /\ inflight' = Append(inflight, [kind |-> "cancel", session |-> b,
                                            actor |-> actor])
            /\ UNCHANGED <<sessions, tutors, weeklySlots, overrides, now, response>>

\* the instance the handler holds when it calls save(): the fields it loaded,
\* changed by the handler; the provider refunds what is left of the payment now
cancelInstance(cur, snap, actor, refundOk) ==
    cancelSession([snap EXCEPT !.refundedCents = cur.refundedCents], actor, refundOk)

\* session.save() writes the fields the handler changed on its instance and
\* leaves the others as they are in the table
saveCancel(cur, snap, actor, refundOk) ==
    LET inst == cancelInstance(cur, snap, actor, refundOk)
    IN  [cur EXCEPT
            !.status = IF inst.status # snap.status THEN inst.status ELSE @,
            !.refundStatus = IF inst.refundStatus # snap.refundStatus
                             THEN inst.refundStatus ELSE @,
            !.refundAmount = IF inst.refundAmount # snap.refundAmount
                             THEN inst.refundAmount ELSE @,
            !.paymentStatus = IF inst.paymentStatus # snap.paymentStatus
                              THEN inst.paymentStatus ELSE @,
            !.refundedCents = inst.refundedCents]

\* the rest of the handler: the refund, save() and the reply; the reply notes
\* whether stripeService.refundSession was called
FinishCancel(i, refundOk) ==
    /\ i \in 1..Len(inflight)
    /\ inflight[i].kind = "cancel"
    /\ LET call == inflight[i]
           cur == RowOf(call.session)
           percent == refundPercent(call.session, call.actor)
       IN  /\ sessions' = Replace(sessions, cur,
                                  saveCancel(cur, call.session, call.actor, refundOk))
           /\ response' = [op |-> "cancel", req |-> call.session, status |-> 200,
                           error |-> "none", unit |-> None, mode |-> "none",
                           refundPercent |-> percent, refundCalled |-> percent > 0]
    /\ inflight' = Without(i)
    /\ UNCHANGED <<tutors, weeklySlots, overrides, now>>

NextCancelRace ==
    \/ \E req \in PaidRequests :
          /\ NumSessions < MaxBooked
          /\ ~\E b \in Rows : b.scheduledAt = req.scheduledAt
          /\ TryBook(req, TRUE)
    \/ \E b \in Rows : HandleCheckoutComplete(b)
    \/ \E b \in Rows, actor \in {"tutor", "student", "stranger"} :
          Len(inflight) < MaxInflight /\ BeginCancel(b, actor)
    \/ \E i \in 1..MaxInflight, refundOk \in BOOLEAN : FinishCancel(i, refundOk)
    \/ \E t \in CancelInstants : Tick(t)

SpecCancelRace == InitOffered /\ [][NextCancelRace]_vars

----------------------------------------------------------------------------
(* Properties of POST /checkout/session, checked under SpecValidator *)

\* the instants at which the 30-minute units spanned by a request start
UnitStarts(req) ==
    {req.scheduledAt + SlotMins * i : i \in 0..((EffectiveDuration(req) \div SlotMins) - 1)}

\* base availability of the unit that starts at instant t: the override's
\* isAvailable when one exists for (date, startTime, medium), else membership of
\* (dayOfWeek, startTime, medium) in the weekly template
BaseAvailable(tutorId, t, medium) ==
    LET os == {o \in overrides : /\ o.tutorId = tutorId /\ o.date = DateStr(t)
                                 /\ o.startTime = SlotTime(t) /\ o.medium = medium}
    IN  IF os # {} THEN \A o \in os : o.isAvailable
        ELSE \E w \in weeklySlots : /\ w.tutorId = tutorId /\ w.dayOfWeek = DayOfWeek(t)
                                     /\ w.startTime = SlotTime(t) /\ w.medium = medium

UnavailableStarts(req) ==
    {t \in UnitStarts(req) : ~BaseAvailable(req.tutorId, t, EffectiveMedium(req))}

\* the request passes the checks that come before the per-unit check
ReachesUnitCheck(req) ==
    /\ EffectiveDuration(req) % SlotMins = 0
    /\ EffectiveDuration(req) \in SlotMins..MaxDuration
    /\ req.caller # "PARENT_UNLINKED"
    /\ req.tutorId \in Tutors
    /\ tutors[req.tutorId].stripeConnectOnboarded
    /\ EffectiveMedium(req) \in VALID_MEDIA

C8_RejectionChangesNothing ==
    [][(response'.op = "checkout" /\ response'.status # 200) =>
          sessions' = sessions]_vars

\* C10 as amended: every booking the route creates is PENDING with payment
\* pending, and when the hand-off succeeds its mode is the reservation exactly
\* when the medium is GROUP and the tutor's minGroupSize exceeds 1, the
\* immediate charge otherwise
C10_CreatedPending ==
    [][(response'.op = "checkout" /\ sessions' # sessions) =>
          LET req == response'.req
          IN  /\ \A b \in BagToSet(sessions' (-) sessions) :
                    b.status = "PENDING" /\ b.paymentStatus = "pending"
              /\ response'.status = 200 =>
                    IF EffectiveMedium(req) = "GROUP"
                          /\ tutors[req.tutorId].minGroupSize > 1
                    THEN response'.mode = "reservation"
                    ELSE response'.mode = "payment"]_vars

\* C10 happens: a GROUP booking was created in reservation mode and is PENDING
C10_Witness ==
    /\ response.op = "checkout"
    /\ response.status = 200
    /\ response.mode = "reservation"
    /\ \E b \in Rows : /\ b.sessionType = "GROUP" /\ b.status = "PENDING"
                        /\ b.checkout = "group_reservation"

\* C10 as stated: a created booking is RESERVED exactly when the medium is GROUP
\* and the tutor's minGroupSize exceeds 1, PENDING otherwise
C10_ReservedAtCreation ==
    [][(response'.op = "checkout" /\ sessions' # sessions) =>
          LET req == response'.req
          IN  \A b \in BagToSet(sessions' (-) sessions) :
                 IF EffectiveMedium(req) = "GROUP" /\ tutors[req.tutorId].minGroupSize > 1
                 THEN b.status = "RESERVED"
                 ELSE b.status = "PENDING"]_vars

----------------------------------------------------------------------------
(* Properties of the sessions table *)

Active(b) == b.status # "CANCELLED"

OneToOne(b) == b.sessionType \in {"VIDEO", "IN_PERSON"}

\* a and b are two rows of the table
TwoRows(a, b) == a # b \/ CopiesIn(a, sessions) > 1

\* [scheduledAt, scheduledAt + durationMins) of a and of b intersect
RangesOverlap(a, b) ==
    /\ a.scheduledAt < b.scheduledAt + b.durationMins
    /\ b.scheduledAt < a.scheduledAt + a.durationMins

\* the units of the days of the model, by the instant at which they start
AllUnits == {d * MinutesPerDay + SlotMins * k : d \in 0..2, k \in 0..47}

\* number of non-CANCELLED GROUP bookings of the tutor that cover the unit at u
GroupCovering(tutorId, u) ==
    CountRows(sessions, {b \in Rows : /\ b.tutorId = tutorId /\ Active(b)
                                       /\ b.sessionType = "GROUP"
                                       /\ b.scheduledAt < u + SlotMins
                                       /\ u < b.scheduledAt + b.durationMins})

\* C1: no two non-CANCELLED VIDEO or IN_PERSON bookings of one tutor have
\* overlapping time ranges
C1_NoOneToOneOverlap ==
    \A a \in Rows, b \in Rows :
        (/\ TwoRows(a, b) /\ a.tutorId = b.tutorId
         /\ Active(a) /\ Active(b) /\ OneToOne(a) /\ OneToOne(b))
        => ~RangesOverlap(a, b)

\* C2: no non-CANCELLED GROUP booking overlaps a non-CANCELLED VIDEO or
\* IN_PERSON booking of the same tutor
C2_GroupExcludesOneToOne ==
    \A g \in Rows, b \in Rows :
        (/\ g.tutorId = b.tutorId /\ Active(g) /\ Active(b)
         /\ g.sessionType = "GROUP" /\ OneToOne(b))
        => ~RangesOverlap(g, b)

\* C3: for every tutor and every unit, the number of non-CANCELLED GROUP
\* bookings covering the unit is at most the tutor's maxGroupSize
C3_GroupWithinCapacity ==
    \A t \in Tutors, u \in AllUnits : GroupCovering(t, u) <= tutors[t].maxGroupSize

\* C4: of two calls on one tutor with overlapping ranges, one of them not GROUP,
\* at most one creates a booking: the table never holds both bookings
C4_ConcurrentCallsExclude ==
    \A a \in Rows, b \in Rows :
        (/\ TwoRows(a, b) /\ a.tutorId = b.tutorId
         /\ (a.sessionType # "GROUP" \/ b.sessionType # "GROUP"))
        => ~RangesOverlap(a, b)

\* C5: calls for the last spot of a unit do not both create a booking: no GROUP
\* booking covers a unit on which the group count exceeds maxGroupSize
C5_ConcurrentCallsWithinCapacity ==
    \A b \in Rows :
        b.sessionType = "GROUP" =>
            \A u \in UnitStarts(b) :
                GroupCovering(b.tutorId, u) <= tutors[b.tutorId].maxGroupSize

\* C9: every booking of the table has a durationMins that is a multiple of 30,
\* above 0 and at most 480
C9_DurationOnGrid ==
    \A b \in Rows :
        /\ b.durationMins % SlotMins = 0
        /\ b.durationMins > 0
        /\ b.durationMins <= MaxDuration

----------------------------------------------------------------------------
(* Properties of GET /api/availability/:tutorId/slots, checked under SpecResolver *)

\* a non-CANCELLED booking of the tutor, of a medium in media, covers the unit at u
Covered(tutorId, u, media) ==
    \E b \in Rows : /\ b.tutorId = tutorId /\ Active(b) /\ b.sessionType \in media
                    /\ b.scheduledAt < u + SlotMins
                    /\ u < b.scheduledAt + b.durationMins

\* the occupancy rule of a unit for a medium
OccupancyAllows(tutorId, u, medium) ==
    IF medium = "GROUP"
    THEN /\ ~Covered(tutorId, u, {"VIDEO", "IN_PERSON"})
         /\ GroupCovering(tutorId, u) < tutors[tutorId].maxGroupSize
    ELSE ~Covered(tutorId, u, VALID_MEDIA)

\* C6: the answer holds a future unit of the window with available = true exactly
\* when its base availability is true and the occupancy rule holds, and for GROUP
\* with groupSpotsLeft = maxGroupSize - group count
C6_ResolveMatchesRule ==
    (response.op = "slots" /\ response.status = 200) =>
        LET q == response.req
        IN  \A date \in q.startDate..q.endDate, startTime \in WindowTimes :
               LET u == date * MinutesPerDay + startTime
                   shown == {v \in response.slots :
                               v.date = date /\ v.startTime = startTime /\ v.available}
               IN  u > now =>
                     /\ shown # {} <=> (/\ BaseAvailable(q.tutorId, u, q.medium)
                                        /\ OccupancyAllows(q.tutorId, u, q.medium))
                     /\ q.medium = "GROUP" =>
                           \A v \in shown :
                              v.groupSpotsLeft =
                                 tutors[q.tutorId].maxGroupSize - GroupCovering(q.tutorId, u)

----------------------------------------------------------------------------
(* Terminal statuses                                                        *)
----------------------------------------------------------------------------

TerminalStatuses == {"CANCELLED", "COMPLETED"}

\* the number of rows of a table in a status
WithStatus(table, status) == CountRows(table, {b \in Rows : b.status = status})

\* C11: a booking whose status is CANCELLED or COMPLETED keeps that status in
\* every later state: no step takes a row out of a terminal status
C11_TerminalStatusKept ==
    [][\A status \in TerminalStatuses :
          WithStatus(sessions', status) >= WithStatus(sessions, status)]_vars

----------------------------------------------------------------------------
(* The scheduler *)
----------------------------------------------------------------------------

\* the step is a run of the scheduler (the clock keeps the last reply)
CronStep == response'.op = "cron" /\ now' = now

\* the rows of a table that start more than 24 hours after now
StartingLater(table) ==
    Where(table, {b \in BagToSet(table) : b.scheduledAt - now > CutoffHours * 60})

\* C12: a run of the scheduler changes only bookings that start within the next 24
\* hours: the bookings that start later are the same after the run as before it
C12_LaterBookingsUntouched ==
    [][CronStep => StartingLater(sessions') = StartingLater(sessions)]_vars

\* a run has resolved a booking while a RESERVED booking starts later than 24 hours
C12_Witness ==
    /\ response.op = "cron"
    /\ \E b \in Rows : b.status = "RESERVED" /\ b.scheduledAt - now > CutoffHours * 60
    /\ \E b \in Rows : b.cutoffs + b.captures > 0 /\ b.scheduledAt - now <= CutoffHours * 60

\* the key of the slot group of a booking
SlotKey(b) == <<b.tutorId, b.scheduledAt, b.durationMins>>

\* the headcount of the slot group of b: its RESERVED and CONFIRMED group bookings
Headcount(table, b) ==
    CountRows(table, {c \in BagToSet(table) : /\ SlotKey(c) = SlotKey(b)
                                                /\ c.sessionType = "GROUP"
                                                /\ c.status \in {"RESERVED", "CONFIRMED"}})

\* a RESERVED group booking of the table that starts within the next 24 hours
Due(b) ==
    /\ b.sessionType = "GROUP" /\ b.status = "RESERVED"
    /\ b.scheduledAt - now <= CutoffHours * 60

\* C13: when a run evaluates a slot group whose headcount is at least the tutor's
\* minGroupSize and the captures succeed, every RESERVED booking of the group is
\* charged once and CONFIRMED when the run ends, and none of the group's bookings
\* is cancelled or refunded
C13_QuorumMetConfirms ==
    [][CronStep =>
         \A b \in Rows :
            (/\ SlotKey(b) \in response'.req.done
             /\ response'.req.captureFails = EmptyBag
             /\ b.sessionType = "GROUP"
             /\ Headcount(sessions, b) >= tutors[b.tutorId].minGroupSize)
            => /\ Due(b) =>
                    CopiesIn([b EXCEPT !.status = "CONFIRMED", !.paymentStatus = "paid",
                                       !.stripePaymentIntentId = TRUE,
                                       !.captures = b.captures + 1], sessions')
                       >= CopiesIn(b, sessions)
               /\ b.status = "CONFIRMED" => CopiesIn(b, sessions') >= CopiesIn(b, sessions)
               /\ Headcount(sessions', b) = Headcount(sessions, b)]_vars

\* a run without failures has charged and confirmed a group of at least two
C13_Witness ==
    /\ response.op = "cron" /\ response.error = "none"
    /\ response.req.captureFails = EmptyBag
    /\ \E b \in Rows : /\ SlotKey(b) \in response.req.done
                       /\ b.sessionType = "GROUP" /\ b.status = "CONFIRMED"
                       /\ b.captures = 1 /\ b.cutoffs = 0
                       /\ Headcount(sessions, b) >= 2
                       /\ Headcount(sessions, b) >= tutors[b.tutorId].minGroupSize

\* c is booking b after a run: the columns no operation of the model writes agree
SameBooking(b, c) ==
    /\ SlotKey(c) = SlotKey(b) /\ c.sessionType = b.sessionType /\ c.price = b.price

\* b is a booking of a slot group below the minimum whose loop body ran to its end
BelowQuorum(b) ==
    /\ SlotKey(b) \in response'.req.done
    /\ b.sessionType = "GROUP"
    /\ Headcount(sessions, b) < tutors[b.tutorId].minGroupSize

\* C14: when a run evaluates a slot group whose headcount is below the tutor's
\* minGroupSize, every RESERVED booking of the group ends CANCELLED with nothing
\* charged, every CONFIRMED booking ends CANCELLED with all that was charged
\* refunded, and no booking of the group is RESERVED or CONFIRMED after the run
C14_BelowQuorumCancels ==
    [][CronStep =>
         \A b \in Rows :
            BelowQuorum(b) =>
               /\ Due(b) =>
                    CountRows(sessions', {c \in BagToSet(sessions') :
                                 /\ SameBooking(b, c) /\ c.status = "CANCELLED"
                                 /\ c.captures = b.captures
                                 /\ c.refundedCents = b.refundedCents})
                       >= CopiesIn(b, sessions)
               /\ b.status = "CONFIRMED" =>
                    CountRows(sessions', {c \in BagToSet(sessions') :
                                 /\ SameBooking(b, c) /\ c.status = "CANCELLED"
                                 /\ c.captures = b.captures
                                 /\ c.refundedCents = b.captures * b.price})
                       >= CopiesIn(b, sessions)
               /\ Headcount(sessions', b) = 0]_vars

\* the bookings of a table that belong to the slot groups of keys
OfGroups(table, keys) == Where(table, {b \in BagToSet(table) : SlotKey(b) \in keys})

\* no booking was charged twice or cancelled twice by the scheduler
ResolvedOnce == \A b \in Rows : b.captures <= 1 /\ b.cutoffs <= 1

\* a run that comes right after a run without a failed capture leaves the bookings
\* of the slot groups that run resolved as they are
SecondRunIdle ==
    (/\ CronStep
     /\ response.op = "cron" /\ response.error = "none"
     /\ response.req.captureFails = EmptyBag)
    => OfGroups(sessions', response.req.done) = OfGroups(sessions, response.req.done)

\* C15: over any number of runs of the scheduler a booking is charged at most once
\* and cancelled or refunded by it at most once, and a run that immediately follows
\* the run that resolved a slot group changes none of the group's bookings
C15_ResolvedExactlyOnce == []ResolvedOnce /\ [][SecondRunIdle]_vars

\* the bookings a run had to resolve that are still unresolved in the table after
\* it: RESERVED bookings of the slot groups that were due, and CONFIRMED bookings
\* of those groups that were below the minimum
LeftOver(after) ==
    LET keys == {SlotKey(b) : b \in {d \in Rows : Due(d)}}
    IN  CountRows(after, {c \in BagToSet(after) :
           /\ SlotKey(c) \in keys /\ c.sessionType = "GROUP"
           /\ \/ c.status = "RESERVED"
              \/ /\ c.status = "CONFIRMED"
                 /\ Headcount(sessions, c) < tutors[c.tutorId].minGroupSize})

\* the operations of a run that failed: the charges that failed, and the update
\* that threw
FailedOperations(reply) ==
    BagCardinality(reply.req.captureFails) + (IF reply.error = "none" THEN 0 ELSE 1)

\* C16: a capture, refund or status update that fails for one booking does not stop
\* the run: every other booking of the group and every other due group is still
\* processed, so a run leaves unresolved at most the bookings whose own operation
\* failed
C16_FailureIsolated ==
    [][CronStep => LeftOver(sessions') <= FailedOperations(response')]_vars

\* the bookings whose charge or refund failed in the run of a reply
FailedBookings(reply) == reply.req.captureFails (+) reply.req.refundFails

\* no booking is marked refunded unless the provider refunded something
RefundedMeansRefunded ==
    \A b \in Rows : b.paymentStatus = "refunded" => b.refundedCents > 0

\* C17: a booking whose capture or refund failed in a run is after the run what it
\* was before it (RESERVED, or CONFIRMED and paid), so that the next run acts on it
\* again, and no booking is ever marked refunded without a refund having succeeded
C17_FailedBookingKept ==
    /\ [][CronStep =>
            \A b \in BagToSet(FailedBookings(response')) :
               CopiesIn(b, sessions') >= CopiesIn(b, FailedBookings(response'))]_vars
    /\ []RefundedMeansRefunded

\* the bookings of the slot group of b that the scheduler has cancelled or charged
Resolved(table, b) ==
    CountRows(table, {c \in BagToSet(table) : SlotKey(c) = SlotKey(b) /\ c.cutoffs > 0})

Charged(table, b) ==
    CountRows(table, {c \in BagToSet(table) : SlotKey(c) = SlotKey(b) /\ c.captures > 0})

\* C18: whatever reservation or cancellation arrives while a run is under way, the
\* scheduler does not act on a stale headcount: it charges bookings of a slot group
\* only if the group has at least minGroupSize RESERVED or CONFIRMED bookings at the
\* moment it confirms them, and cancels bookings of a group only if the group has
\* fewer than that at the moment it cancels them
C18_NoStaleHeadcount ==
    [][CronStep =>
         \A b \in Rows :
            b.tutorId \in Tutors =>
               /\ Charged(sessions', b) > Charged(sessions, b)
                     => Headcount(sessions, b) >= tutors[b.tutorId].minGroupSize
               /\ Resolved(sessions', b) > Resolved(sessions, b)
                     => Headcount(sessions, b) < tutors[b.tutorId].minGroupSize]_vars

----------------------------------------------------------------------------
(* Cancellation and its refund *)
----------------------------------------------------------------------------

\* the session is paid: there is something to refund
Paid(b) == b.paymentStatus = "paid" /\ b.stripePaymentIntentId

\* the percent the policy dictates for a paid booking cancelled now
NominalPercent(b, actor) ==
    IF actor = "tutor" THEN 100
    ELSE IF b.scheduledAt - now >= tutors[b.tutorId].cancellationNoticeHours * 60 THEN 100
    ELSE tutors[b.tutorId].lateCancellationRefundPercent

\* the step is the cancellation of the paid booking b by actor, answered 200
PaidCancelStep(b, actor, refundOk) ==
    /\ CancelSession(b, actor, refundOk)
    /\ response'.status = 200
    /\ Paid(b)

\* one more row like row is in the table after the step
Written(row) == CopiesIn(row, sessions') > CopiesIn(row, sessions)

\* C19: when a paid booking is cancelled the nominal refund percent is 100 for the
\* tutor, and for the student or a linked parent 100 if the time until the start is
\* at least tutor.cancellationNoticeHours and tutor.lateCancellationRefundPercent
\* otherwise; the refund that succeeds is that percent of the price, and the
\* booking becomes CANCELLED
C19_NominalRefundPercent ==
    [][\A b \in Rows, actor \in {"tutor", "student", "parent"} :
          PaidCancelStep(b, actor, TRUE) =>
             /\ response'.refundPercent = NominalPercent(b, actor)
             /\ \E c \in BagToSet(sessions') :
                   /\ Written(c)
                   /\ SameBooking(b, c) /\ c.status = "CANCELLED"
                   /\ c.refundAmount * 100 = b.price * NominalPercent(b, actor)
                   /\ c.refundedCents = c.refundAmount]_vars

\* a participant cancelled two hours before the start, with a notice of 24 hours and
\* a late refund of 25 percent, and a quarter of the price was refunded
C19_Witness ==
    /\ response.op = "cancel" /\ response.status = 200 /\ response.refundPercent = 25
    /\ \E b \in Rows : /\ b.scheduledAt - now = 2 * 60
                       /\ b.status = "CANCELLED" /\ b.paymentStatus = "refunded"
                       /\ b.refundAmount * 4 = b.price /\ b.refundAmount > 0
                       /\ tutors[b.tutorId].cancellationNoticeHours = 24
                       /\ tutors[b.tutorId].lateCancellationRefundPercent = 25

\* C20: when the refund fails during the cancellation of a paid booking, the booking
\* is still CANCELLED, with refundStatus failed, no refundAmount and paymentStatus
\* still paid, while the reply carries the nominal percent; when the refund succeeds
\* the refunded amount and full or partial are recorded and paymentStatus is refunded
C20_RefundOutcomeRecorded ==
    [][\A b \in Rows, actor \in {"tutor", "student", "parent"}, refundOk \in BOOLEAN :
          (PaidCancelStep(b, actor, refundOk) /\ NominalPercent(b, actor) > 0) =>
             /\ response'.refundPercent = NominalPercent(b, actor)
             /\ IF refundOk
                THEN Written([b EXCEPT
                        !.status = "CANCELLED", !.paymentStatus = "refunded",
                        !.refundStatus = IF NominalPercent(b, actor) = 100
                                         THEN "full" ELSE "partial",
                        !.refundAmount = (b.price * NominalPercent(b, actor)) \div 100,
                        !.refundedCents = (b.price * NominalPercent(b, actor)) \div 100])
                ELSE Written([b EXCEPT !.status = "CANCELLED",
                                       !.refundStatus = "failed"])]_vars

\* a cancellation whose refund failed: CANCELLED, failed, still paid, nothing refunded
C20_Witness ==
    /\ response.op = "cancel" /\ response.status = 200 /\ response.refundPercent > 0
    /\ \E b \in Rows : /\ b.status = "CANCELLED" /\ b.refundStatus = "failed"
                       /\ b.paymentStatus = "paid" /\ b.stripePaymentIntentId
                       /\ b.refundAmount = 0 /\ b.refundedCents = 0

----------------------------------------------------------------------------
(* The time grid *)
----------------------------------------------------------------------------

\* the date and the time of day of an instant
DateAndTime(t) == <<t \div MinutesPerDay, t % MinutesPerDay>>

\* C21: for every start and every duration that is a positive multiple of 30 the
\* expansion has durationMins / 30 keys, the i-th being the date and the start time
\* of start + 30 * i minutes, in order, and the expansion of the resolver and the one
\* of the validator are the same
C21_UnitExpansion ==
    response.op = "units" =>
       LET start == response.req.scheduledAt
           n == response.req.durationMins \div SlotMins
       IN  /\ Len(response.keys) = n
           /\ \A i \in 1..n : response.keys[i] = DateAndTime(start + SlotMins * (i - 1))
           /\ response.infoKeys = response.keys

----------------------------------------------------------------------------
(* One-to-one bookings block their units *)
----------------------------------------------------------------------------

\* a VIDEO or IN_PERSON booking that is not CANCELLED and reaches into the unit
\* that starts at u
BlockedBy(tutorId, u) ==
    {b \in Rows : /\ b.tutorId = tutorId /\ OneToOne(b) /\ Active(b)
                  /\ b.scheduledAt < u + SlotMins
                  /\ u < b.scheduledAt + b.durationMins}

\* the units a request reaches into
UnitsTouched(req) ==
    {u \in {k * SlotMins : k \in 0..((3 * MinutesPerDay) \div SlotMins)} :
        /\ req.scheduledAt < u + SlotMins
        /\ u < req.scheduledAt + EffectiveDuration(req)}

\* resolve reports no blocked unit as available, whatever the medium
BlockedUnitsHidden ==
    (response.op = "slots" /\ response.status = 200) =>
        \A v \in response.slots :
           v.available => BlockedBy(response.req.tutorId,
                                    v.date * MinutesPerDay + v.startTime) = {}

\* a tryBook that reaches into a blocked unit is rejected
BlockedUnitsRefused ==
    (response'.op = "checkout" /\ now' = now /\ response'.req.tutorId \in Tutors) =>
        ((\E u \in UnitsTouched(response'.req) : BlockedBy(response'.req.tutorId, u) # {})
            => response'.status # 200)

\* C22: from the moment a tryBook of a VIDEO or IN_PERSON booking covering unit u
\* has succeeded and until the booking is CANCELLED, PENDING included, resolve
\* reports u as not available for every medium and every further tryBook whose
\* range overlaps u is rejected
C22_OneToOneBlocksUnit == []BlockedUnitsHidden /\ [][BlockedUnitsRefused]_vars

----------------------------------------------------------------------------
(* Properties of POST /checkout/session interleaved with the availability   *)
(* store, checked under SpecInterleaved                                      *)

\* the template/override check of every unit of the request, on the tables as
\* they are now
UnitsOffered(req) ==
    CheckSlotsFrom(1, req.tutorId,
                   slotInfos(req.scheduledAt, EffectiveDuration(req)),
                   EffectiveMedium(req)) = 0

\* a step of the checkout route that inserted a row
Created == response'.op = "checkout" /\ sessions' # sessions

\* C23: whenever POST /checkout/session creates a booking, every unit the
\* booking spans is available under the weekly template and the overrides as
\* they are at the instant of creation, also when the template is replaced or
\* an override is upserted or deleted between the per-unit checks and the
\* creation.
C23_AvailableAtCreation == [][Created => UnitsOffered(response'.req)]_vars

----------------------------------------------------------------------------
(* Properties of PUT /api/availability/weekly and its readers, checked under *)
(* SpecWeekly                                                                *)

\* the template T offers the unit
OfferedBy(T, tutorId, slot, medium) ==
    \E w \in T : /\ w.tutorId = tutorId
                 /\ w.dayOfWeek = slot.dayOfWeek
                 /\ w.startTime = slot.slotTime
                 /\ w.medium = medium

\* the stored template of t1 is the one the server started with or the whole
\* body of one replacement
TemplateWhole ==
    \/ weeklySlots = OfferedSlots
    \/ \E slots \in ReplaceBodies :
          {w \in weeklySlots : w.tutorId = "t1"}
              = {WeeklyRow("t1", s.dayOfWeek, s.startTime, s.medium) : s \in slots}

\* the units a slots reply lists are those of the stored template, all of them
ResolverSeesWhole ==
    (response.op = "slots" /\ response.status = 200 /\ response.req.startDate = 1
        /\ response.req.endDate = 1)
        => {v.startTime : v \in response.slots}
              = {w.startTime : w \in {x \in weeklySlots :
                                         /\ x.tutorId = response.req.tutorId
                                         /\ x.medium = response.req.medium
                                         /\ x.dayOfWeek = 1}}

\* a booking is created only if one template in force while the handler ran
\* offers every unit of it
SawOneTemplate ==
    (response'.op = "checkout" /\ sessions' # sessions)
        => \E T \in response'.templates :
              LET req == response'.req
                  slots == slotInfos(req.scheduledAt, EffectiveDuration(req))
              IN  \A i \in DOMAIN slots :
                     OfferedBy(T, req.tutorId, slots[i], EffectiveMedium(req))

\* a replacement that fails leaves the stored template as it was
FailureKeepsOld ==
    (response'.op = "weekly" /\ response'.status # 200) => weeklySlots' = weeklySlots

\* C24: the full replacement of a tutor's weekly template is atomic to its
\* readers: a slots query or a booking request running concurrently with it
\* sees the complete old template or the complete new one, never an empty or
\* partial one, and a replacement that fails leaves the old template in place.
C24_ReplacementAtomic ==
    /\ [](TemplateWhole /\ ResolverSeesWhole)
    /\ [][SawOneTemplate /\ FailureKeepsOld]_vars

----------------------------------------------------------------------------
(* Progress of the scheduler, checked under SpecSchedulerFair *)

\* the starts of the group bookings of the model
GroupStarts == {req.scheduledAt : req \in SchedulerRequests}

\* a RESERVED GROUP booking starting at t is inside the cutoff horizon
ReservedDueAt(t) ==
    \E b \in Rows : /\ b.sessionType = "GROUP" /\ b.status = "RESERVED"
                    /\ b.scheduledAt = t /\ t <= now + CutoffHours * 60

\* no GROUP booking starting at t is RESERVED, and one is CONFIRMED or CANCELLED
SettledAt(t) ==
    /\ ~\E b \in Rows : b.sessionType = "GROUP" /\ b.status = "RESERVED"
                           /\ b.scheduledAt = t
    /\ \E b \in Rows : /\ b.sessionType = "GROUP" /\ b.scheduledAt = t
                       /\ b.status \in {"CONFIRMED", "CANCELLED"}

\* C25: with a timer that keeps firing and payment calls that eventually
\* succeed, every RESERVED GROUP booking whose start is within 24 hours
\* eventually becomes CONFIRMED or CANCELLED: none stays RESERVED forever once
\* inside the cutoff horizon.
C25_ReservedEventuallySettled ==
    \A t \in GroupStarts : ReservedDueAt(t) ~> SettledAt(t)

\* a run of the scheduler has just settled a reservation inside the horizon
C25_Witness ==
    /\ response.op = "cron"
    /\ \E b \in Rows : /\ b.sessionType = "GROUP"
                       /\ b.status \in {"CONFIRMED", "CANCELLED"}
                       /\ b.captures + b.cutoffs > 0
                       /\ b.scheduledAt <= now + CutoffHours * 60

----------------------------------------------------------------------------
(* The resolver against the validator, checked under SpecResolver *)

\* the request for exactly the unit of day date starting at startTime
UnitRequest(tutorId, medium, date, startTime) ==
    [tutorId |-> tutorId, sessionType |-> medium,
     scheduledAt |-> date * MinutesPerDay + startTime, durationMins |-> SlotMins,
     caller |-> "STUDENT"]

\* the errors of the template/override, conflict and capacity checks
UnitErrors == {"SlotUnavailable", "Conflict", "OneToOneBooked", "GroupFull"}

\* a slots reply has just been given, on the tables as they are
SlotsStep == response'.op = "slots" /\ response'.status = 200 /\ now' = now

\* the reply and the validator agree on every future unit of the window
ResolverAgrees ==
    LET q == response'.req
    IN  \A date \in q.startDate..q.endDate, startTime \in WindowTimes :
           LET out == checkoutSession(UnitRequest(q.tutorId, q.medium, date, startTime),
                                      TRUE)
               listed == \E v \in response'.slots :
                            v.date = date /\ v.startTime = startTime /\ v.available
           IN  date * MinutesPerDay + startTime > now
                  => /\ listed => out.error \notin UnitErrors
                     /\ ~listed => out.status # 200

\* C26: in every state and for every future unit u of the window, if the
\* resolver returns u with available = true for medium m then the booking
\* request for exactly that unit (start u, 30 minutes, medium m) passes the
\* template/override, conflict and capacity checks in the same state, and if
\* the resolver omits u or returns it with available = false the request is
\* rejected; also when existing bookings are off the 30-minute grid or start
\* before the queried date range.
C26_ResolverMatchesValidator == [][SlotsStep => ResolverAgrees]_vars

----------------------------------------------------------------------------
(* Properties of concurrent cancellations, checked under SpecCancelRace *)

\* a refund of the booking has been asked of the provider before
RefundTried(b) == b.refundStatus # "none" \/ b.refundedCents > 0

\* the handler that has just replied called the refund primitive
RefundCall == response'.op = "cancel" /\ response'.status = 200 /\ response'.refundCalled

\* what the provider refunded for a cancelled booking is the one refund recorded
SingleRefundRecorded ==
    \A b \in Rows :
        /\ b.refundedCents = b.refundAmount
        /\ b.refundedCents > 0 => b.status = "CANCELLED" /\ b.paymentStatus = "refunded"
                                     /\ b.refundStatus \in {"full", "partial"}

\* C27: two concurrent cancellation requests for the same paid booking invoke
\* the refund primitive at most once in total, and the booking ends CANCELLED
\* with a single recorded refund.
C27_RefundAtMostOnce ==
    /\ []SingleRefundRecorded
    /\ [][RefundCall => ~RefundTried(RowOf(response'.req))]_vars

\* the GROUP bookings of t1 starting at t with a status in statuses
GroupAt(t, statuses) ==
    {b \in Rows : /\ b.sessionType = "GROUP" /\ b.tutorId = "t1"
                  /\ b.scheduledAt = t /\ b.status \in statuses}

\* the slot group starting at t is inside the cutoff horizon with CONFIRMED
\* bookings, no RESERVED booking and fewer participants than the minimum
ConfirmedBelowQuorum(t) ==
    /\ t <= now + CutoffHours * 60
    /\ GroupAt(t, {"CONFIRMED"}) # {}
    /\ GroupAt(t, {"RESERVED"}) = {}
    /\ CountRows(sessions, GroupAt(t, {"PENDING", "RESERVED", "CONFIRMED", "COMPLETED"}))
          < tutors["t1"].minGroupSize

\* C28: if a GROUP slot group inside the cutoff horizon has CONFIRMED bookings,
\* no RESERVED booking and fewer than tutor.minGroupSize participants that are
\* not CANCELLED, a later run of the scheduler refunds and cancels the
\* remaining CONFIRMED bookings of the group.
C28_ConfirmedBelowQuorumCancelled ==
    \A t \in GroupStarts : ConfirmedBelowQuorum(t) ~> (GroupAt(t, {"CONFIRMED"}) = {})

----------------------------------------------------------------------------
(* The start of a new booking against the clock, checked under SpecResolver *)

\* C29: POST /checkout/session never creates a booking whose start is not
\* after the current time: a request whose scheduledAt is in the past is
\* rejected, as the resolver leaves out the units that are past.
C29_NoBookingInThePast == [][Created => response'.req.scheduledAt > now]_vars

----------------------------------------------------------------------------
(* The group sizes of a tutor, checked under SpecCapacity *)

GroupSizesOrdered ==
    \A t \in Tutors :
        /\ MinGroupLimit <= tutors[t].minGroupSize
        /\ tutors[t].minGroupSize <= tutors[t].maxGroupSize
        /\ tutors[t].maxGroupSize <= MaxGroupLimit

\* an update answered 400 leaves the tutors as they were
RejectedUpdateKeeps ==
    (response'.op = "tutor" /\ response'.status = 400) => tutors' = tutors

\* C30: after any sequence of updates of the tutor settings every tutor has
\* 2 <= minGroupSize <= maxGroupSize <= 20; an update that would break this is
\* rejected and leaves both values unchanged.
C30_GroupSizesOrdered == []GroupSizesOrdered /\ [][RejectedUpdateKeeps]_vars

============================================================================
